---------------------------- MODULE Spec2Model ----------------------------
(***************************************************************************)
(* Job processing pipeline of the multimodal agent backend.                *)
(*                                                                         *)
(*   backend/app/api/v1/jobs.py           create_job                       *)
(*   multimodal-agent/.../api/v1/files.py upload_file                      *)
(*   backend/app/workers/tasks.py         process_job, _process_job_async  *)
(*   backend/app/services/storage.py      StorageService                   *)
(*   backend/app/agents/graph.py          run_agent, should_continue       *)
(*   backend/app/agents/tools/*.py        analyze_image, plan_approach     *)
(*   multimodal-agent/.../codegen_tool.py generate_code                    *)
(*                                                                         *)
(* Every await of _process_job_async (a database round trip, a storage     *)
(* call, the workflow) is one step, so that runs of process_job on the     *)
(* same job interleave exactly where the coroutine can be suspended.       *)
(*                                                                         *)
(* Strings that the claims inspect (error messages, storage paths) are     *)
(* sequences of tokens; a nullable column that is NULL is the empty        *)
(* sequence.                                                               *)
(***************************************************************************)
EXTENDS Integers, Sequences, FiniteSets, TLC

----------------------------------------------------------------------------
(* Bounds of the model *)

\* job ids handed out by create_job / passed to process_job
MaxJobs == 1
\* invocations of the process_job task
MaxRuns == 3

\* concurrent is_allowed calls
MaxCalls == 3
MaxRequests == 2
\* components generate_key is given after the prefix
MaxKeyArgs == 2
\* messages accumulated in the agent state
MaxMessages == 2
\* tokens in a reply of the code model
MaxTextLen == 5
\* waits of a client between its reads of a job
MaxWaits == 4
\* largest requests_limit / window_seconds a RateLimiter is built with
MaxLimit == 2
MaxWindow == 2
\* readings of time.time(), in seconds
MaxTime == 2

JobIds == 1..MaxJobs
RunIds == 1..MaxRuns
\* ids of uploaded files (files.py: file_id = uuid4())
FileIds == {"f1"}
CallIds == 1..MaxCalls
\* HTTP requests through the middleware; request m makes call m of is_allowed
RequestIds == 1..MaxRequests
\* rate-limit identifiers (user id or client host)
Identifiers == {"u1", "u2"}
\* request.state.user_id and request.client.host; "None" when absent
UserIds == {"None", "u1"}
ClientHosts == {"None", "h1"}

----------------------------------------------------------------------------
(* Values *)

NULL == <<>>
NoRow == [status |-> "absent"]

\* models/job.py JobStatus
JobStatus == {"PENDING", "PROCESSING", "VALIDATING", "EXECUTING", "COMPLETED", "FAILED"}
TerminalStatus == {"COMPLETED", "FAILED"}

\* files.py: storage_path = f"uploads/{user_id}/{file_id}.{extension}"
UploadPath(f) == <<"uploads", f>>
\* tasks.py: result_path = f"results/{job_id}/generated_code.py"
ResultPath(j) == <<"results", j, "generated_code.py">>

\* the public methods class StorageService defines
StorageServiceMethods == {"upload_file", "download_file", "delete_file", "get_presigned_url"}

\* str(e) of the AttributeError Python raises for storage.<name> when the
\* class defines no such attribute
AttributeErrorMsg(name) ==
    <<"'StorageService'", "object", "has", "no", "attribute", name>>

\* str(e) of an exception raised by the MinIO client while StorageService()
\* runs _ensure_bucket_exists (only S3Error is caught there)
MinioUnreachableMsg == <<"connection", "to", "minio", "refused">>

\* str(e) of an exception raised by session.commit()
DbErrorMsg == <<"database", "connection", "lost">>

\* tasks.py line 64
FileNotFoundMsg == <<"File", "not", "found">>
\* tasks.py line 85: f"Failed to download file: {str(e)}"
DownloadFailedMsg(e) == <<"Failed", "to", "download", "file:">> \o e

\* substring test on token sequences
Contains(msg, sub) ==
    \E i \in 1..(Len(msg) + 1) :
        /\ i + Len(sub) - 1 <= Len(msg)
        /\ SubSeq(msg, i, i + Len(sub) - 1) = sub

----------------------------------------------------------------------------
(* State *)

VARIABLES
    jobs,        \* jobs table: job id -> row, or NoRow
    files,       \* files table: the file ids that have a row
    objects,     \* object storage: the paths that hold bytes
    handedOver,  \* job ids create_job passed to process_job.delay
    llmHealthy,  \* the three inference endpoints answer every request well
                 \* (read by the workflow only)
    run,         \* one record per invocation of process_job
    clock,       \* what time.time() returns
    redis,       \* cache_manager.redis: the client and the rate-limit keys
    limiter,     \* the RateLimiter instance
    calls,       \* one record per call of is_allowed
    probe,       \* input and result of the latest call of the router
    settings,    \* get_settings(): the fields the middleware reads
    requests,    \* one record per HTTP request through rate_limit_middleware
    cache,       \* the entries CacheManager keeps in the store, and its last call
    http         \* the latest call of an LLM adapter

vars == <<jobs, files, objects, handedOver, llmHealthy, run,
          clock, redis, limiter, calls, probe, settings, requests, cache, http>>

\* the state of the job pipeline, and the state beside it
jobVars == <<jobs, files, objects, handedOver, llmHealthy, run>>
restVars == <<settings, requests, cache, http>>
auxVars == <<clock, redis, limiter, calls, probe, restVars>>

\* attributes of the in-session Job object assigned since the last commit
Clean == [status |-> "unset", result_url |-> <<"unset">>, error_message |-> <<"unset">>]

\* AgentState as run_agent builds it (graph.py lines 145-158)
InitialAgentState(image) ==
    [ image_data     |-> image,
      image_analysis |-> "None",
      reasoning      |-> "None",
      generated_code |-> "None",
      error          |-> NULL,
      current_step   |-> "start",
      next           |-> "analyze_image" ]

IdleRun ==
    [ pc       |-> "idle",
      job_id   |-> 0,
      mem      |-> Clean,
      known    |-> Clean,     \* the columns as the session last loaded or flushed them
      file     |-> "none",
      exc      |-> NULL,
      ret      |-> "none",
      agent    |-> InitialAgentState("None"),
      ops      |-> {},        \* external calls issued: storage and inference
      stages   |-> <<>>,      \* workflow nodes executed, in order
      posts    |-> <<>>,      \* HTTP requests sent to the endpoints, by node
      reply    |-> "none",    \* what the latest of them was answered
      commits  |-> 0,         \* commits of this run that succeeded
      sawRow   |-> FALSE,     \* the job row was found at line 43
      exitRow  |-> NoRow ]    \* the job row as persisted when the run ended

Finished(r) == run[r].pc \in {"done", "raised"}

\* the session's view of the columns after the assignments in mem
Merge(known, mem) ==
    [ status        |-> IF mem.status = "unset" THEN known.status ELSE mem.status,
      result_url    |-> IF mem.result_url = <<"unset">> THEN known.result_url
                        ELSE mem.result_url,
      error_message |-> IF mem.error_message = <<"unset">> THEN known.error_message
                        ELSE mem.error_message ]

\* session.commit(): UPDATE jobs SET <columns whose value changed> WHERE
\* id = j.  A column assigned the value the session already holds for it has
\* no net change and is not written.
Flush(row, mem, known) ==
    LET new == Merge(known, mem) IN
    [ row EXCEPT
        !.status        = IF new.status = known.status THEN @ ELSE new.status,
        !.result_url    = IF new.result_url = known.result_url THEN @ ELSE new.result_url,
        !.error_message = IF new.error_message = known.error_message THEN @
                          ELSE new.error_message ]

\* the columns of a row as a session loads them
Columns(row) ==
    [ status |-> row.status, result_url |-> row.result_url,
      error_message |-> row.error_message ]

\* every identifier is counted under the one key
Key_Shared(identifier) == <<"rate_limit", "u1">>

\* line 62: key = f"rate_limit:{identifier}"
Key(identifier) == <<"rate_limit", identifier>>

\* the rate-limit keys the store may hold
Keys == {Key(i) : i \in Identifiers \cup (ClientHosts \ {"None"}) \cup {"unknown"}}

\* a call of is_allowed that has not been made
IdleCall ==
    [ pc        |-> "idle",
      id        |-> "none",
      now       |-> 0,         \* now = time.time() (line 63)
      count     |-> 0,         \* current_count (line 71)
      allowed   |-> FALSE,     \* the returned pair
      remaining |-> 0,
      wrote     |-> {},        \* store commands of this call that changed the key
      failed    |-> FALSE ]    \* a store command of this call raised

\* the router has not been called
NoProbe == [current_step |-> "none", error |-> NULL, image_analysis |-> "None",
            generated_code |-> "None", next |-> "none"]

\* a key that has no expiry set
NoTtl == -1

\* str(n) of an integer
Str(n) == <<"str", n>>

\* sep.join(components); a string is the sequence of its characters
RECURSIVE Join(_, _)
Join(sep, components) ==
    IF components = <<>> THEN <<>>
    ELSE IF Len(components) = 1 THEN components[1]
    ELSE components[1] \o sep \o Join(sep, Tail(components))

\* the separator is left out
generate_key_NoSeparator(prefix, args) == Join(<<>>, <<prefix>> \o args)

\* cache.py lines 147-148: components = [prefix] + list(args);
\* ":".join(components)
generate_key(prefix, args) == Join(<<":">>, <<prefix>> \o args)

\* the job ids get_job is asked for, and the cache keys it builds for them
\* (jobs.py line 228)
CachedJobIds == { <<"1">>, <<"2">> }
JobKey(job_id) == generate_key(<<"j", "o", "b">>, <<job_id>>)
CacheKeys == {JobKey(j) : j \in CachedJobIds}

\* CacheManager.default_ttl
DefaultTtl == 3600

\* no entry under a key
Absent == [value |-> <<"nil">>, expires |-> NoTtl]

\* what the cache calls return
None == <<"None">>
True == <<"True">>
False == <<"False">>

\* no call of the CacheManager has been made
NoCacheCall == [op |-> "none", key |-> <<>>, ret |-> None, failed |-> FALSE,
                raised |-> FALSE]

\* get_job has not been called
NoGetJob == [job_id |-> 0, user |-> "none", ret |-> None, hit |-> FALSE,
             cached |-> FALSE, ttl |-> 0]

\* no adapter has been called
NoHttp == [adapter |-> "none", method |-> "none", messages |-> <<>>,
           outcome |-> "none", sent |-> 0, raised |-> "none", ret |-> None]

\* generate_key has not been called
NoKeyCall == [prefix |-> <<>>, args |-> <<>>, key |-> <<"none">>]

\* no entry, no call
NoCache == [entries |-> [k \in CacheKeys |-> Absent], last |-> NoCacheCall,
            get_job |-> NoGetJob, key_call |-> NoKeyCall]

\* a request that has not arrived
IdleRequest ==
    [ pc         |-> "idle",
      limited    |-> 0,         \* calls of rate_limiter.is_allowed for this request
      handled    |-> 0,         \* calls of call_next(request)
      guarded    |-> TRUE,      \* no call_next came before an is_allowed returned
      status     |-> 0,         \* the response the middleware returns
      headers    |-> {},
      user_id    |-> "None",    \* request.state.user_id
      client     |-> "None" ]   \* request.client.host, "None" without request.client

\* config.py lines 23-24, 96-97: the defaults, with a small limit and window
DefaultSettings ==
    [ is_development |-> TRUE, debug |-> TRUE,
      rate_limit_requests |-> 1, rate_limit_window |-> 1 ]

\* no request, no cache call, no adapter call
RestIdle ==
    /\ settings = DefaultSettings
    /\ requests = [m \in RequestIds |-> IdleRequest]
    /\ cache = NoCache
    /\ http = NoHttp

\* no Redis client, no RateLimiter call, no router call
AuxIdle ==
    /\ RestIdle
    /\ clock = 0
    /\ redis = [client |-> FALSE,
                zsets  |-> [k \in Keys |-> {}],
                ttl    |-> [k \in Keys |-> NoTtl]]
    /\ limiter = [requests_limit |-> 1, window_seconds |-> 1]
    /\ calls = [c \in CallIds |-> IdleCall]
    /\ probe = NoProbe

Init ==
    /\ AuxIdle
    /\ jobs = [j \in JobIds |-> NoRow]
    /\ files = {}
    /\ objects = {}
    /\ handedOver = {}
    /\ llmHealthy = TRUE
    /\ run = [r \in RunIds |-> IdleRun]


----------------------------------------------------------------------------
(* HTTP API *)

\* files.py upload_file: storage.upload_file, then the files row.  A commit
\* that fails after the upload leaves the object without a row.
UploadFile(f) ==
    /\ f \notin files
    /\ UploadPath(f) \notin objects
    /\ \E db_ok \in BOOLEAN :
        /\ objects' = objects \cup {UploadPath(f)}
        /\ files' = IF db_ok THEN files \cup {f} ELSE files
    /\ UNCHANGED <<jobs, handedOver, llmHealthy, run, auxVars>>

\* The files row is removed outside the core (no foreign key ties
\* jobs.file_id to it); the stored object stays.
DeleteFileRow(f) ==
    /\ f \in files
    /\ files' = files \ {f}
    /\ UNCHANGED <<jobs, objects, handedOver, llmHealthy, run, auxVars>>

NewJobRow(f) ==
    [ status        |-> "PENDING",
      user_id       |-> "u1",
      file_id       |-> f,
      result_url    |-> NULL,
      error_message |-> NULL ]

\* jobs.py create_job: 404 unless the file row exists; else INSERT the job
\* as PENDING and return it.  The hand-over to the worker is a comment
\* (lines 119-121), so nothing is queued.
CreateJob(f) ==
    /\ f \in files
    /\ \E j \in JobIds :
        /\ jobs[j] = NoRow
        /\ \A k \in JobIds : k < j => jobs[k] # NoRow
        /\ jobs' = [jobs EXCEPT ![j] = NewJobRow(f)]
    /\ handedOver' = handedOver
    /\ UNCHANGED <<files, objects, llmHealthy, run, auxVars>>

----------------------------------------------------------------------------
(* process_job *)

\* one call of a StorageService method: the attribute lookup, then the
\* MinIO round trip (net_ok: whether the transport works)
StorageCall(name, path, net_ok) ==
    IF name \notin StorageServiceMethods
        THEN [ok |-> FALSE, e |-> AttributeErrorMsg(name), issued |-> FALSE]
    ELSE IF ~net_ok
        THEN [ok |-> FALSE, e |-> MinioUnreachableMsg, issued |-> TRUE]
    ELSE IF name = "download_file" /\ path \notin objects
        THEN [ok |-> FALSE, e |-> <<"NoSuchKey">>, issued |-> TRUE]
    ELSE [ok |-> TRUE, e |-> NULL, issued |-> TRUE]

\* run r has not been invoked yet; runs are numbered in the order of their
\* first database round trip
Idle(r) ==
    /\ run[r].pc = "idle"
    /\ \A q \in RunIds : q < r => run[q].pc # "idle"

\* an exception leaves the coroutine: asyncio.run re-raises it
Raise(r, e) ==
    [run[r] EXCEPT !.pc = "raised", !.exc = e, !.exitRow = jobs[run[r].job_id]]

\* a missing row is inserted instead of reported
LoadJob_Upsert(r, j) ==
    /\ Idle(r)
    /\ jobs' = IF jobs[j] = NoRow THEN [jobs EXCEPT ![j] = NewJobRow("f1")] ELSE jobs
    /\ run' = [run EXCEPT ![r].pc = "commit_processing", ![r].job_id = j,
                          ![r].sawRow = TRUE,
                          ![r].known = Columns(jobs'[j]),
                          ![r].mem.status = "PROCESSING"]
    /\ UNCHANGED <<files, objects, handedOver, llmHealthy, auxVars>>

\* process_job(job_id) is invoked with any job id (lines 163-181); lines
\* 43-52: SELECT the job; absent: return the not-found result; present:
\* job.status = PROCESSING in the session
LoadJob(r, j) ==
    /\ Idle(r)
    /\ run' = [run EXCEPT ![r] =
            IF jobs[j] = NoRow
                THEN [@ EXCEPT !.pc = "done", !.job_id = j, !.ret = "Job not found"]
                ELSE [@ EXCEPT !.pc = "commit_processing", !.job_id = j,
                               !.sawRow = TRUE,
                               !.known = Columns(jobs[j]),
                               !.mem.status = "PROCESSING"]]
    /\ UNCHANGED <<jobs, files, objects, handedOver, llmHealthy, auxVars>>

\* PROCESSING is assigned but its commit is left to the next one
CommitProcessing_Deferred(r) ==
    /\ run[r].pc = "commit_processing"
    /\ run' = [run EXCEPT ![r].pc = "load_file"]
    /\ UNCHANGED <<jobs, files, objects, handedOver, llmHealthy, auxVars>>

\* line 53: await session.commit()
CommitProcessing(r) ==
    LET j == run[r].job_id IN
    /\ run[r].pc = "commit_processing"
    /\ jobs' = [jobs EXCEPT ![j] = Flush(@, run[r].mem, run[r].known)]
    /\ run' = [run EXCEPT ![r].pc = "load_file", ![r].mem = Clean,
                          ![r].known = Merge(@, run[r].mem),
                          ![r].commits = @ + 1]
    /\ UNCHANGED <<files, objects, handedOver, llmHealthy, auxVars>>

\* lines 58-65: SELECT the file row; absent: FAILED "File not found"
LoadFile(r) ==
    LET j == run[r].job_id
        f == jobs[j].file_id IN
    /\ run[r].pc = "load_file"
    /\ run' = [run EXCEPT ![r] =
            IF f \notin files
                THEN [@ EXCEPT !.pc = "commit_failed", !.ret = "File not found",
                               !.mem.status = "FAILED",
                               !.mem.error_message = FileNotFoundMsg]
                ELSE [@ EXCEPT !.pc = "download", !.file = f]]
    /\ UNCHANGED <<jobs, files, objects, handedOver, llmHealthy, auxVars>>

\* lines 74-86: storage = StorageService() (which asks MinIO whether the
\* bucket exists), then storage.download(file.storage_path); any exception:
\* FAILED "Failed to download file: <str(e)>"
Download(r) ==
    LET f == run[r].file IN
    /\ run[r].pc = "download"
    /\ \E ctor_ok \in BOOLEAN, net_ok \in BOOLEAN :
        LET call == StorageCall("download", UploadPath(f), net_ok)
            e == IF ~ctor_ok THEN MinioUnreachableMsg ELSE call.e
            issued == {"bucket_exists"} \cup
                      (IF ctor_ok /\ call.issued THEN {"get_object"} ELSE {})
        IN run' = [run EXCEPT ![r] =
            IF ctor_ok /\ call.ok
                THEN [@ EXCEPT !.pc = "run_agent", !.ops = @ \cup issued,
                               !.agent = InitialAgentState("bytes")]
                ELSE [@ EXCEPT !.pc = "commit_failed", !.ret = "download failed",
                               !.exc = e, !.ops = @ \cup issued,
                               !.mem.status = "FAILED",
                               !.mem.error_message = DownloadFailedMsg(e)]]
    /\ UNCHANGED <<jobs, files, objects, handedOver, llmHealthy, auxVars>>

\* lines 66-71 and 87-92: await session.commit(), then return the error
CommitFailed(r) ==
    LET j == run[r].job_id IN
    /\ run[r].pc = "commit_failed"
    /\ jobs' = [jobs EXCEPT ![j] = Flush(@, run[r].mem, run[r].known)]
    /\ run' = [run EXCEPT ![r].pc = "done", ![r].mem = Clean,
                          ![r].known = Merge(@, run[r].mem),
                          ![r].commits = @ + 1,
                          ![r].exitRow = Flush(jobs[j], run[r].mem, run[r].known)]
    /\ UNCHANGED <<files, objects, handedOver, llmHealthy, auxVars>>

\* session.execute or session.commit raises where no try encloses it
\* (lines 53, 58, 66, 87, 155): the exception leaves process_job and the
\* row stays as last committed
DbRaisesUncaught(r) ==
    /\ run[r].pc \in {"commit_processing", "load_file",
                      "commit_failed", "commit_exc"}
    /\ run' = [run EXCEPT ![r] = Raise(r, DbErrorMsg)]
    /\ UNCHANGED <<jobs, files, objects, handedOver, llmHealthy, auxVars>>

----------------------------------------------------------------------------
(* The service: uploads, job creation and worker runs up to the download *)

Next ==
    \/ \E f \in FileIds : UploadFile(f)
    \/ \E f \in FileIds : DeleteFileRow(f)
    \/ \E f \in FileIds : CreateJob(f)
    \/ \E r \in RunIds, j \in JobIds : LoadJob(r, j)
    \/ \E r \in RunIds : CommitProcessing(r)
    \/ \E r \in RunIds : LoadFile(r)
    \/ \E r \in RunIds : Download(r)
    \/ \E r \in RunIds : CommitFailed(r)

Spec == Init /\ [][Next]_vars

\* the same with database calls that may raise
NextFaults ==
    \/ Next
    \/ \E r \in RunIds : DbRaisesUncaught(r)

SpecFaults == Init /\ [][NextFaults]_vars

----------------------------------------------------------------------------
(* The workflow: graph.py and the three stage tools *)

Truthy(x) == x \notin {"None", ""}

\* what an inference endpoint can answer to one request
LlmFailures == {"conn_error", "resp_error", "other_error"}
TextReplies == {"text", ""}
\* replies of the code model, by what extract_python_code and compile()
\* make of them
CodeReplies == {"valid", "invalid", "blank"}

\* str(e) of LLMConnectionError / LLMResponseError (llm_adapter.py), or of
\* an exception the adapter does not translate (IndexError on an empty
\* choices list)
LlmErrorMsg(o) ==
    IF o = "conn_error" THEN <<"Failed", "to", "connect">>
    ELSE IF o = "resp_error" THEN <<"LLM", "returned", "status", "500">>
    ELSE <<"list", "index", "out", "of", "range">>

\* the error step is routed on to the planning stage
should_continue_ErrorOnward(current_step, error) ==
    IF current_step \in {"analyze_complete", "error"} THEN "plan_approach"
    ELSE IF current_step = "planning_complete" THEN "generate_code"
    ELSE "END"

\* analysis is followed by code generation, without the planning stage
should_continue_SkipsPlan(current_step, error) ==
    IF error # NULL /\ current_step = "error" THEN "END"
    ELSE IF current_step \in {"analyze_complete", "planning_complete"} THEN "generate_code"
    ELSE "END"

\* code that does not compile is generated again
should_continue_RetriesCodegen(current_step, error) ==
    IF error # NULL /\ current_step = "error" THEN "END"
    ELSE IF current_step = "analyze_complete" THEN "plan_approach"
    ELSE IF current_step \in {"planning_complete", "codegen_complete_with_errors"}
        THEN "generate_code"
    ELSE "END"

\* graph.py should_continue, on the two fields it reads
should_continue(current_step, error) ==
    IF error # NULL /\ current_step = "error" THEN "END"
    ELSE IF current_step = "analyze_complete" THEN "plan_approach"
    ELSE IF current_step = "planning_complete" THEN "generate_code"
    ELSE IF current_step \in {"codegen_complete", "codegen_complete_with_errors"} THEN "END"
    ELSE "END"

\* the node's returned dict merged into the state, then the conditional edge
Routed(st) == [st EXCEPT !.next = should_continue(st.current_step, st.error)]

\* the error is recorded but the step is left as it was
StageError_KeepsStep(st, msg) == Routed([st EXCEPT !.error = msg])

\* the dict a stage returns on its failure paths
StageError(st, msg) == Routed([st EXCEPT !.error = msg, !.current_step = "error"])

\* vision_tool.py analyze_image, given the endpoint's answer o
analyze_image(st, o) ==
    IF ~Truthy(st.image_data)
        THEN StageError(st, <<"No", "image", "data", "available", "for", "analysis">>)
    ELSE IF o \in LlmFailures
        THEN StageError(st, <<"Image", "analysis", "failed:">> \o LlmErrorMsg(o))
    ELSE Routed([st EXCEPT !.image_analysis = o,
                           !.current_step = "analyze_complete",
                           !.error = NULL])

\* reasoning_tool.py plan_approach
plan_approach(st, o) ==
    IF ~Truthy(st.image_analysis)
        THEN StageError(st, <<"No", "image", "analysis", "available", "for", "planning">>)
    ELSE IF o \in LlmFailures
        THEN StageError(st, <<"Planning", "failed:">> \o LlmErrorMsg(o))
    ELSE Routed([st EXCEPT !.reasoning = o,
                           !.current_step = "planning_complete",
                           !.error = NULL])

\* codegen_tool.py extract_python_code, on the kind of reply
extract_python_code(reply) == IF reply = "blank" THEN "" ELSE reply

\* codegen_tool.py validate_code_syntax: compile() accepts the empty module
validate_code_syntax(code) == code # "invalid"

\* code that does not compile is a failure of the stage, and is dropped
generate_code_InvalidIsFailure(st, o) ==
    IF ~Truthy(st.image_analysis)
        THEN StageError(st, <<"No", "image", "analysis", "available", "for", "code", "generation">>)
    ELSE IF o \in LlmFailures \/ ~validate_code_syntax(extract_python_code(o))
        THEN StageError(st, <<"Code", "generation", "failed:">> \o LlmErrorMsg(o))
    ELSE Routed([st EXCEPT !.generated_code = extract_python_code(o),
                           !.current_step = "codegen_complete",
                           !.error = NULL])

\* codegen_tool.py generate_code
generate_code(st, o) ==
    IF ~Truthy(st.image_analysis)
        THEN StageError(st, <<"No", "image", "analysis", "available", "for", "code", "generation">>)
    ELSE IF o \in LlmFailures
        THEN StageError(st, <<"Code", "generation", "failed:">> \o LlmErrorMsg(o))
    ELSE LET code == extract_python_code(o) IN
         IF ~validate_code_syntax(code)
            THEN Routed([st EXCEPT !.generated_code = code,
                                   !.current_step = "codegen_complete_with_errors",
                                   !.error = <<"Code", "has", "syntax", "errors:", "Syntax", "error">>])
            ELSE Routed([st EXCEPT !.generated_code = code,
                                   !.current_step = "codegen_complete",
                                   !.error = NULL])

\* the request is sent before the input is looked at
CallsModel_Always(node, st) == TRUE

\* whether the stage sends a request for this state
CallsModel(node, st) ==
    IF node = "analyze_image" THEN Truthy(st.image_data) ELSE Truthy(st.image_analysis)

\* a failed request is sent once more
HttpPosts_RetryOnce(o) == IF o \in LlmFailures THEN 2 ELSE 1

\* llm_adapter.py lines 143-148, 212-217, 290-295: one call of generate or
\* generate_with_image sends one client.post, whatever answer o comes back
HttpPosts(o) == 1

\* the requests a node sends: one adapter call when the stage reaches it
\* (vision_tool.py line 62, reasoning_tool.py line 58, codegen_tool.py
\* line 112)
StagePosts(node, st, o) ==
    IF CallsModel(node, st)
        THEN [k \in 1..HttpPosts(o) |-> node]
        ELSE <<>>

\* the answers an endpoint may give: any, or only good ones when the
\* endpoints are healthy
Replies(all, good) == IF llmHealthy THEN good ELSE all \cup LlmFailures

\* one node of the compiled graph runs inside run_agent (tasks.py line 96)
AnalyzeImage(r) ==
    /\ run[r].pc = "run_agent"
    /\ run[r].agent.next = "analyze_image"
    /\ \E o \in Replies(TextReplies, {"text"}) :
        run' = [run EXCEPT
            ![r].agent = analyze_image(@, o),
            ![r].stages = Append(@, "analyze_image"),
            ![r].posts = @ \o StagePosts("analyze_image", run[r].agent, o),
            ![r].reply = IF CallsModel("analyze_image", run[r].agent) THEN o ELSE @,
            ![r].ops = IF CallsModel("analyze_image", run[r].agent)
                          THEN @ \cup {"llm:analyze"} ELSE @]
    /\ UNCHANGED <<jobs, files, objects, handedOver, llmHealthy, auxVars>>

PlanApproach(r) ==
    /\ run[r].pc = "run_agent"
    /\ run[r].agent.next = "plan_approach"
    /\ \E o \in Replies(TextReplies, {"text"}) :
        run' = [run EXCEPT
            ![r].agent = plan_approach(@, o),
            ![r].stages = Append(@, "plan_approach"),
            ![r].posts = @ \o StagePosts("plan_approach", run[r].agent, o),
            ![r].reply = IF CallsModel("plan_approach", run[r].agent) THEN o ELSE @,
            ![r].ops = IF CallsModel("plan_approach", run[r].agent)
                          THEN @ \cup {"llm:plan"} ELSE @]
    /\ UNCHANGED <<jobs, files, objects, handedOver, llmHealthy, auxVars>>

GenerateCode(r) ==
    /\ run[r].pc = "run_agent"
    /\ run[r].agent.next = "generate_code"
    /\ \E o \in Replies(CodeReplies, {"valid"}) :
        run' = [run EXCEPT
            ![r].agent = generate_code(@, o),
            ![r].stages = Append(@, "generate_code"),
            ![r].posts = @ \o StagePosts("generate_code", run[r].agent, o),
            ![r].reply = IF CallsModel("generate_code", run[r].agent) THEN o ELSE @,
            ![r].ops = IF CallsModel("generate_code", run[r].agent)
                          THEN @ \cup {"llm:generate"} ELSE @]
    /\ UNCHANGED <<jobs, files, objects, handedOver, llmHealthy, auxVars>>

----------------------------------------------------------------------------
(* process_job after the workflow: tasks.py lines 105-160 *)

\* lines 105-130: map final_state to the job; a non-empty generated_code is
\* uploaded through storage.upload; an exception goes to the handler of
\* line 150, which sets FAILED and error_message = str(e)
MapFinalState(r) ==
    LET j == run[r].job_id
        fs == run[r].agent IN
    /\ run[r].pc = "run_agent"
    /\ fs.next = "END"
    /\ \E net_ok \in BOOLEAN :
        LET call == StorageCall("upload", ResultPath(j), net_ok) IN
        IF fs.error # NULL
            THEN /\ run' = [run EXCEPT ![r].pc = "commit_result",
                                       ![r].mem.status = "FAILED",
                                       ![r].mem.error_message = fs.error]
                 /\ objects' = objects
        ELSE IF ~Truthy(fs.generated_code)
            THEN /\ run' = [run EXCEPT ![r].pc = "commit_result",
                                       ![r].mem.status = "COMPLETED"]
                 /\ objects' = objects
        ELSE IF call.ok
            THEN /\ run' = [run EXCEPT ![r].pc = "commit_result",
                                       ![r].ops = @ \cup {"put_object"},
                                       ![r].mem.status = "COMPLETED",
                                       ![r].mem.result_url = ResultPath(j)]
                 /\ objects' = objects \cup {ResultPath(j)}
        ELSE /\ run' = [run EXCEPT ![r].pc = "commit_exc",
                                   ![r].exc = call.e,
                                   ![r].ops = IF call.issued THEN @ \cup {"put_object"} ELSE @,
                                   ![r].mem.status = "FAILED",
                                   ![r].mem.error_message = call.e]
             /\ objects' = objects
    /\ UNCHANGED <<jobs, files, handedOver, llmHealthy, auxVars>>

\* lines 138-148: commit and return
CommitResult(r) ==
    LET j == run[r].job_id IN
    /\ run[r].pc = "commit_result"
    /\ jobs' = [jobs EXCEPT ![j] = Flush(@, run[r].mem, run[r].known)]
    /\ run' = [run EXCEPT ![r].pc = "done", ![r].mem = Clean,
                          ![r].known = Merge(@, run[r].mem),
                          ![r].ret = run[r].mem.status,
                          ![r].commits = @ + 1,
                          ![r].exitRow = Flush(jobs[j], run[r].mem, run[r].known)]
    /\ UNCHANGED <<files, objects, handedOver, llmHealthy, auxVars>>

\* lines 150-160: the handler's own commit
CommitExc(r) ==
    LET j == run[r].job_id IN
    /\ run[r].pc = "commit_exc"
    /\ jobs' = [jobs EXCEPT ![j] = Flush(@, run[r].mem, run[r].known)]
    /\ run' = [run EXCEPT ![r].pc = "done", ![r].mem = Clean,
                          ![r].known = Merge(@, run[r].mem),
                          ![r].ret = "error",
                          ![r].commits = @ + 1,
                          ![r].exitRow = Flush(jobs[j], run[r].mem, run[r].known)]
    /\ UNCHANGED <<files, objects, handedOver, llmHealthy, auxVars>>

----------------------------------------------------------------------------
(* Lines 94-160 of _process_job_async on their own: every run holds the    *)
(* downloaded bytes of its job's file and is about to await run_agent.     *)
(* The job row is PROCESSING; its error_message is NULL or the message a   *)
(* failed earlier run left.                                                *)

AfterDownload(j, stale, image) ==
    [ IdleRun EXCEPT
        !.pc = "run_agent", !.job_id = j, !.file = "f1", !.sawRow = TRUE,
        !.known = [status |-> "PROCESSING", result_url |-> NULL,
                   error_message |-> stale],
        !.commits = 1, !.ops = {"bucket_exists", "get_object"},
        !.agent = InitialAgentState(image) ]

InitAgent ==
    /\ AuxIdle
    /\ files = FileIds
    /\ objects = {UploadPath(f) : f \in FileIds}
    /\ handedOver = {}
    /\ llmHealthy \in BOOLEAN
    /\ \E stale \in {NULL, DownloadFailedMsg(MinioUnreachableMsg)}, image \in {"bytes", ""} :
        /\ jobs = [j \in JobIds |->
                    [NewJobRow("f1") EXCEPT !.status = "PROCESSING",
                                            !.error_message = stale]]
        /\ run \in [RunIds -> {AfterDownload(j, stale, image) : j \in JobIds}]

NextAgent ==
    \/ \E r \in RunIds : AnalyzeImage(r)
    \/ \E r \in RunIds : PlanApproach(r)
    \/ \E r \in RunIds : GenerateCode(r)
    \/ \E r \in RunIds : MapFinalState(r)
    \/ \E r \in RunIds : CommitResult(r)
    \/ \E r \in RunIds : CommitExc(r)

SpecAgent == InitAgent /\ [][NextAgent]_vars

\* the workflow of a single run: run 1 awaits run_agent, no other run is made
InitWorkflow ==
    /\ AuxIdle
    /\ files = FileIds
    /\ objects = {UploadPath(f) : f \in FileIds}
    /\ handedOver = {}
    /\ llmHealthy \in BOOLEAN
    /\ \E stale \in {NULL, DownloadFailedMsg(MinioUnreachableMsg)}, image \in {"bytes", ""},
          j \in JobIds :
        /\ jobs = [k \in JobIds |->
                    [NewJobRow("f1") EXCEPT !.status = "PROCESSING",
                                            !.error_message = stale]]
        /\ run = [r \in RunIds |->
                    IF r = 1 THEN AfterDownload(j, stale, image) ELSE IdleRun]

SpecWorkflow == InitWorkflow /\ [][NextAgent]_vars

\* the same lines when the job is run again: the earlier run may also have
\* left the message of a failed upload of the result
InitRerun ==
    /\ AuxIdle
    /\ files = FileIds
    /\ objects = {UploadPath(f) : f \in FileIds}
    /\ handedOver = {}
    /\ llmHealthy \in BOOLEAN
    /\ \E stale \in {NULL, AttributeErrorMsg("upload")}, image \in {"bytes", ""} :
        /\ jobs = [j \in JobIds |->
                    [NewJobRow("f1") EXCEPT !.status = "PROCESSING",
                                            !.error_message = stale]]
        /\ run \in [RunIds -> {AfterDownload(j, stale, image) : j \in JobIds}]

SpecRerun == InitRerun /\ [][NextAgent]_vars

----------------------------------------------------------------------------
(* The router on its own: should_continue applied to any state dict *)

\* values of current_step; "" is what state.get("current_step", "") gives
\* when the key is unset
RouterSteps ==
    {"", "start", "analyze_complete", "planning_complete", "codegen_complete",
     "codegen_complete_with_errors", "error", "other"}
RouterErrors == {NULL, <<"x">>}

Route ==
    /\ \E cs \in RouterSteps, e \in RouterErrors,
          ia \in {"None", "", "text"}, gc \in {"None", "valid", "invalid"} :
        probe' = Routed([current_step |-> cs, error |-> e, image_analysis |-> ia,
                         generated_code |-> gc, next |-> "none"])
    /\ UNCHANGED <<jobVars, restVars, clock, redis, limiter, calls>>

NextRouter == Route

SpecRouter == Init /\ [][NextRouter]_vars

----------------------------------------------------------------------------
(* A stage on its own: one of the three tools applied to any agent state *)

\* the messages a state may hold: of the human, of the model, of the
\* system, and an entry that has no content attribute
MessageKinds ==
    { [type |-> "human", content |-> "a"], [type |-> "human", content |-> ""],
      [type |-> "ai", content |-> "b"], [type |-> "system", content |-> "c"],
      [type |-> "tuple", content |-> "d"] }
MessageLists == UNION { [1..k -> MessageKinds] : k \in 0..MaxMessages }

\* hasattr(msg, "content"): every BaseMessage has it
HasContent(msg) == msg.type \in {"human", "ai", "system"}

\* vision_tool.py lines 46-53 (reasoning_tool.py 42-48, codegen_tool.py
\* 95-101): user_prompt is the content of the first message, from the
\* newest back, that has a content attribute; "" when there is none
RECURSIVE UserPrompt(_)
UserPrompt(messages) ==
    IF messages = <<>> THEN ""
    ELSE IF HasContent(messages[Len(messages)]) THEN messages[Len(messages)].content
    ELSE UserPrompt(SubSeq(messages, 1, Len(messages) - 1))

\* the hint each stage puts in place of an empty user_prompt
DefaultHint(node) ==
    CASE node = "analyze_image" -> "Analyze this image and describe its contents."
      [] node = "plan_approach" -> "Generate useful Python code based on the image."
      [] node = "generate_code" -> "Generate useful Python code."

\* user_prompt or "<hint>", as formatted into the prompt
Instruction(node, messages) ==
    IF UserPrompt(messages) # "" THEN UserPrompt(messages) ELSE DefaultHint(node)

\* the stage function of a node, given the endpoint's answer
StageResult(node, st, o) ==
    CASE node = "analyze_image" -> analyze_image(st, o)
      [] node = "plan_approach" -> plan_approach(st, o)
      [] node = "generate_code" -> generate_code(st, o)

\* the answers the endpoint of a node may give
StageReplies(node) ==
    (IF node = "generate_code" THEN CodeReplies ELSE TextReplies) \cup LlmFailures

\* one stage is applied to one state
ApplyStage(node, st, messages, o) ==
    /\ probe' = [node |-> node, before |-> st, messages |-> messages,
                 after |-> StageResult(node, st, o),
                 posts |-> StagePosts(node, st, o),
                 instruction |-> IF CallsModel(node, st)
                                    THEN Instruction(node, messages) ELSE "none"]
    /\ UNCHANGED <<jobVars, restVars, clock, redis, limiter, calls>>

\* the agent states a stage may be given
StageInputs ==
    { [InitialAgentState(image) EXCEPT !.image_analysis = ia, !.reasoning = re] :
        image \in {"None", "", "bytes"}, ia \in {"None", "", "text"},
        re \in {"None", "text"} }

NextStages ==
    /\ probe = NoProbe
    /\ \E node \in {"analyze_image", "plan_approach", "generate_code"},
          st \in StageInputs, messages \in MessageLists :
           \E o \in StageReplies(node) : ApplyStage(node, st, messages, o)

SpecStages == Init /\ [][NextStages]_vars

----------------------------------------------------------------------------
(* extract_python_code on texts: codegen_tool.py lines 17-42.  A text is a
   sequence of tokens: "F" a fence of three backquotes, "python" the word
   python, "x" other text without white space, "nl" a line break. *)

Tokens == {"F", "python", "x", "nl"}
Texts == UNION { [1..k -> Tokens] : k \in 0..MaxTextLen }

RECURSIVE LStrip(_)
LStrip(text) ==
    IF text # <<>> /\ Head(text) = "nl" THEN LStrip(Tail(text)) ELSE text

RECURSIVE RStrip(_)
RStrip(text) ==
    IF text # <<>> /\ text[Len(text)] = "nl"
        THEN RStrip(SubSeq(text, 1, Len(text) - 1)) ELSE text

\* str.strip()
strip(text) == RStrip(LStrip(text))

\* the first fence at position from or later, 0 when there is none
FirstFenceFrom(text, from) ==
    LET later == { j \in from..Len(text) : text[j] = "F" } IN
    IF later = {} THEN 0 ELSE CHOOSE j \in later : \A k \in later : j <= k

\* re.findall(opener \s*(.*?)\s*```, text, re.DOTALL)[0]: the leftmost
\* place where the opener stands and a fence follows it; the lazy group
\* ends before the white space in front of the nearest such fence
FirstMatch(text, opener) ==
    LET n == Len(opener)
        starts == { i \in 1..(Len(text) - n + 1) :
                      /\ SubSeq(text, i, i + n - 1) = opener
                      /\ FirstFenceFrom(text, i + n) # 0 }
    IN  IF starts = {} THEN [found |-> FALSE, group |-> <<>>]
        ELSE LET i == CHOOSE i \in starts : \A k \in starts : i <= k IN
             [found |-> TRUE,
              group |-> strip(SubSeq(text, i + n, FirstFenceFrom(text, i + n) - 1))]

\* extract_python_code(text)
extract_python_code_text(text) ==
    IF FirstMatch(text, <<"F", "python">>).found
        THEN strip(FirstMatch(text, <<"F", "python">>).group)
    ELSE IF FirstMatch(text, <<"F">>).found
        THEN strip(FirstMatch(text, <<"F">>).group)
    ELSE strip(text)

\* generate_code line 120 on one reply of the code model
ExtractPythonCode(text) ==
    /\ probe = NoProbe
    /\ probe' = [text |-> text, code |-> extract_python_code_text(text)]
    /\ UNCHANGED <<jobVars, restVars, clock, redis, limiter, calls>>

NextExtract == \E text \in Texts : ExtractPythonCode(text)

SpecExtract == Init /\ [][NextExtract]_vars

----------------------------------------------------------------------------
(* RateLimiter.is_allowed: core/rate_limiter.py lines 48-92.  Each awaited  *)
(* Redis command is one step; calls interleave between their commands.    *)

\* the call is between its first and its last Redis command
InFlight(c) == calls[c].pc \notin {"idle", "done"}

\* the members of the sorted set with 0 <= score <= max; the member is
\* str(now) and its score is now (line 83), so a member stands for both
InScoreRange(zset, max) == {t \in zset : 0 <= t /\ t <= max}

\* what a call returns
Returned(call, allowed, remaining) ==
    [call EXCEPT !.pc = "done", !.allowed = allowed, !.remaining = remaining]

\* lines 57-64: without a client, (True, requests_limit); else now = time.time()
Enter(c, id) ==
    /\ calls[c].pc = "idle"
    /\ \A q \in CallIds : q < c => calls[q].pc # "idle"
    /\ calls' = [calls EXCEPT ![c] =
            IF ~redis.client
                THEN Returned([@ EXCEPT !.id = id, !.now = clock],
                              TRUE, limiter.requests_limit)
                ELSE [@ EXCEPT !.pc = "zremrangebyscore", !.id = id, !.now = clock]]

\* a call of is_allowed made directly
IsAllowed(c, id) ==
    /\ Enter(c, id)
    /\ UNCHANGED <<jobVars, restVars, clock, redis, limiter, probe>>

\* the same, by a caller that waits for each call to return before it
\* makes the next
IsAllowedAlone(c, id) ==
    /\ \A q \in CallIds : ~InFlight(q)
    /\ IsAllowed(c, id)

\* line 68: zremrangebyscore(key, 0, window_start); a sorted set left empty
\* is removed with its expiry
Zremrangebyscore(c) ==
    LET key == Key(calls[c].id)
        window_start == calls[c].now - limiter.window_seconds
        old == InScoreRange(redis.zsets[key], window_start)
        kept == redis.zsets[key] \ old IN
    /\ calls[c].pc = "zremrangebyscore"
    /\ redis' = [redis EXCEPT !.zsets[key] = kept,
                              !.ttl[key] = IF kept = {} THEN NoTtl ELSE @]
    /\ calls' = [calls EXCEPT ![c].pc = "zcard",
                              ![c].wrote = IF old = {} THEN @ ELSE @ \cup {"zremrangebyscore"}]
    /\ UNCHANGED <<jobVars, restVars, clock, limiter, probe>>

\* the denied call records its attempt as well
Zcard_RecordsDenied(c) ==
    LET key == Key(calls[c].id)
        current_count == Cardinality(redis.zsets[key]) IN
    /\ calls[c].pc = "zcard"
    /\ redis' = [redis EXCEPT !.zsets[key] = @ \cup {calls[c].now}]
    /\ calls' = [calls EXCEPT ![c] =
            IF current_count >= limiter.requests_limit
                THEN Returned([@ EXCEPT !.count = current_count,
                                        !.wrote = @ \cup {"zadd"}], FALSE, 0)
                ELSE [@ EXCEPT !.pc = "expire", !.count = current_count,
                               !.wrote = @ \cup {"zadd"}]]
    /\ UNCHANGED <<jobVars, restVars, clock, limiter, probe>>

\* a call at the limit is still admitted
Zcard_OffByOne(c) ==
    LET key == Key(calls[c].id)
        current_count == Cardinality(redis.zsets[key]) IN
    /\ calls[c].pc = "zcard"
    /\ calls' = [calls EXCEPT ![c] =
            IF current_count > limiter.requests_limit
                THEN Returned([@ EXCEPT !.count = current_count], FALSE, 0)
                ELSE [@ EXCEPT !.pc = "zadd", !.count = current_count]]
    /\ UNCHANGED <<jobVars, restVars, clock, redis, limiter, probe>>

\* lines 71-80: current_count = zcard(key); at the limit: (False, 0)
Zcard(c) ==
    LET key == Key(calls[c].id)
        current_count == Cardinality(redis.zsets[key]) IN
    /\ calls[c].pc = "zcard"
    /\ calls' = [calls EXCEPT ![c] =
            IF current_count >= limiter.requests_limit
                THEN Returned([@ EXCEPT !.count = current_count], FALSE, 0)
                ELSE [@ EXCEPT !.pc = "zadd", !.count = current_count]]
    /\ UNCHANGED <<jobVars, restVars, clock, redis, limiter, probe>>

\* line 83: zadd(key, {str(now): now})
Zadd(c) ==
    LET key == Key(calls[c].id) IN
    /\ calls[c].pc = "zadd"
    /\ redis' = [redis EXCEPT !.zsets[key] = @ \cup {calls[c].now}]
    /\ calls' = [calls EXCEPT ![c].pc = "expire", ![c].wrote = @ \cup {"zadd"}]
    /\ UNCHANGED <<jobVars, restVars, clock, limiter, probe>>

\* lines 84-87: expire(key, window_seconds), which does nothing for a key
\* that does not exist; then (True, requests_limit - current_count - 1)
Expire(c) ==
    LET key == Key(calls[c].id) IN
    /\ calls[c].pc = "expire"
    /\ redis' = [redis EXCEPT !.ttl[key] =
            IF redis.zsets[key] = {} THEN @ ELSE clock + limiter.window_seconds]
    /\ calls' = [calls EXCEPT ![c] =
            Returned([@ EXCEPT !.wrote = @ \cup {"expire"}], TRUE,
                     limiter.requests_limit - calls[c].count - 1)]
    /\ UNCHANGED <<jobVars, restVars, limiter, clock, probe>>

\* the failed call is denied
StoreRaises_FailClosed(c) ==
    /\ calls[c].pc \in {"zremrangebyscore", "zcard", "zadd", "expire"}
    /\ calls' = [calls EXCEPT ![c] = Returned([@ EXCEPT !.failed = TRUE], FALSE, 0)]
    /\ UNCHANGED <<jobVars, restVars, clock, redis, limiter, probe>>

\* lines 89-92: a Redis command raises: (True, requests_limit)
StoreRaises(c) ==
    /\ calls[c].pc \in {"zremrangebyscore", "zcard", "zadd", "expire"}
    /\ calls' = [calls EXCEPT ![c] =
            Returned([@ EXCEPT !.failed = TRUE], TRUE, limiter.requests_limit)]
    /\ UNCHANGED <<jobVars, restVars, clock, redis, limiter, probe>>

\* time passes; Redis removes the keys whose expiry is reached
Tick ==
    /\ clock < MaxTime
    /\ clock' = clock + 1
    /\ LET due(i) == redis.ttl[i] # NoTtl /\ redis.ttl[i] <= clock + 1 IN
       redis' = [redis EXCEPT
            !.zsets = [k \in Keys |-> IF due(k) THEN {} ELSE @[k]],
            !.ttl   = [k \in Keys |-> IF due(k) THEN NoTtl ELSE @[k]]]
    /\ LET due(k) == cache.entries[k].expires # NoTtl
                        /\ cache.entries[k].expires <= clock + 1 IN
       cache' = [cache EXCEPT
            !.entries = [k \in CacheKeys |-> IF due(k) THEN Absent ELSE @[k]]]
    /\ UNCHANGED <<jobVars, settings, requests, http, limiter, calls, probe>>

\* a RateLimiter(requests_limit, window_seconds) over cache_manager, whose
\* Redis client is there or is None
InitLimiter ==
    /\ jobs = [j \in JobIds |-> NoRow]
    /\ files = {}
    /\ objects = {}
    /\ handedOver = {}
    /\ llmHealthy = TRUE
    /\ run = [r \in RunIds |-> IdleRun]
    /\ clock = 0
    /\ \E client \in BOOLEAN :
        redis = [client |-> client,
                 zsets  |-> [k \in Keys |-> {}],
                 ttl    |-> [k \in Keys |-> NoTtl]]
    /\ \E l \in 1..MaxLimit, w \in 1..MaxWindow :
        limiter = [requests_limit |-> l, window_seconds |-> w]
    /\ calls = [c \in CallIds |-> IdleCall]
    /\ probe = NoProbe
    /\ RestIdle

NextLimiter ==
    \/ \E c \in CallIds, id \in Identifiers : IsAllowed(c, id)
    \/ \E c \in CallIds : Zremrangebyscore(c)
    \/ \E c \in CallIds : Zcard(c)
    \/ \E c \in CallIds : Zadd(c)
    \/ \E c \in CallIds : Expire(c)
    \/ Tick

SpecLimiter == InitLimiter /\ [][NextLimiter]_vars

\* calls that do not overlap
NextLimiterSeq ==
    \/ \E c \in CallIds, id \in Identifiers : IsAllowedAlone(c, id)
    \/ \E c \in CallIds : Zremrangebyscore(c)
    \/ \E c \in CallIds : Zcard(c)
    \/ \E c \in CallIds : Zadd(c)
    \/ \E c \in CallIds : Expire(c)
    \/ Tick

SpecLimiterSeq == InitLimiter /\ [][NextLimiterSeq]_vars

\* the same with Redis commands that may raise
NextLimiterFaults ==
    \/ NextLimiterSeq
    \/ \E c \in CallIds : StoreRaises(c)

SpecLimiterFaults == InitLimiter /\ [][NextLimiterFaults]_vars

----------------------------------------------------------------------------
(* rate_limit_middleware: core/rate_limiter.py lines 99-153, registered for *)
(* every HTTP request by create_app (main.py line 114)                     *)

\* line 123: user_id or request.client.host if request.client else "unknown",
\* which Python reads as (user_id or host) if request.client else "unknown"
Identifier(user_id, client) ==
    IF client # "None"
        THEN IF Truthy(user_id) THEN user_id ELSE client
        ELSE "unknown"

\* the request's turn has come and no other request is being served
Arrives(m) ==
    /\ requests[m].pc = "idle"
    /\ \A q \in RequestIds : q < m => requests[q].pc # "idle"
    /\ \A q \in RequestIds : requests[q].pc \in {"idle", "done", "raised"}
    /\ \A q \in CallIds : ~InFlight(q)

\* the middleware never consults the limiter
RateLimitMiddleware_NoCheck(m, user_id, client) ==
    /\ Arrives(m)
    /\ requests' = [requests EXCEPT ![m].pc = "call_next",
                                    ![m].user_id = user_id, ![m].client = client]
    /\ UNCHANGED <<jobVars, clock, redis, limiter, calls, probe, settings, cache, http>>

\* lines 115-126: in development with debug the request goes straight to
\* call_next; otherwise is_allowed(identifier) is called
RateLimitMiddleware(m, user_id, client) ==
    /\ Arrives(m)
    /\ IF settings.is_development /\ settings.debug
            THEN /\ requests' = [requests EXCEPT ![m].pc = "call_next",
                                    ![m].user_id = user_id, ![m].client = client]
                 /\ UNCHANGED calls
            ELSE /\ requests' = [requests EXCEPT
                        ![m].pc = "is_allowed", ![m].limited = @ + 1,
                        ![m].user_id = user_id, ![m].client = client]
                 /\ Enter(m, Identifier(user_id, client))
    /\ UNCHANGED <<jobVars, clock, redis, limiter, probe, settings, cache, http>>

\* the request object is gone once its response is returned
Gone(request) == [request EXCEPT !.user_id = "None", !.client = "None"]

\* the headers of the 429 response (lines 138-143)
DeniedHeaders ==
    { <<"X-RateLimit-Limit", Str(settings.rate_limit_requests)>>,
      <<"X-RateLimit-Remaining", Str(0)>>,
      <<"X-RateLimit-Reset", Str(clock + settings.rate_limit_window)>>,
      <<"Retry-After", Str(settings.rate_limit_window)>> }

\* the handler is called although the request was denied
Decide_CallsHandlerAnyway(m) ==
    /\ requests[m].pc = "is_allowed"
    /\ calls[m].pc = "done"
    /\ requests' = [requests EXCEPT ![m].pc = "call_next"]
    /\ UNCHANGED <<jobVars, clock, redis, limiter, calls, probe, settings, cache, http>>

\* lines 126-144: is_allowed has returned; a denied request is answered 429
Decide(m) ==
    /\ requests[m].pc = "is_allowed"
    /\ calls[m].pc = "done"
    /\ requests' = [requests EXCEPT ![m] =
            IF ~calls[m].allowed
                THEN Gone([@ EXCEPT !.pc = "done", !.status = 429,
                                    !.headers = DeniedHeaders])
                ELSE [@ EXCEPT !.pc = "call_next"]]
    /\ UNCHANGED <<jobVars, clock, redis, limiter, calls, probe, settings, cache, http>>

\* the statuses of the responses a handler returns
HandlerStatus == {200, 404}

\* lines 119, 147-153: call_next(request); its response is returned as it
\* is when the limiter was skipped, else with the two headers set
CallNext(m) ==
    /\ requests[m].pc = "call_next"
    /\ \E st \in HandlerStatus :
        requests' = [requests EXCEPT ![m] =
            Gone([@ EXCEPT !.pc = "done", !.handled = @ + 1, !.status = st,
                      !.guarded = requests[m].limited > 0,
                      !.headers = IF requests[m].limited = 0 THEN {}
                                  ELSE { <<"X-RateLimit-Limit",
                                           Str(settings.rate_limit_requests)>>,
                                         <<"X-RateLimit-Remaining",
                                           Str(calls[m].remaining)>> }])]
    /\ UNCHANGED <<jobVars, clock, redis, limiter, calls, probe, settings, cache, http>>

\* call_next raises: the exception leaves the middleware
CallNextRaises(m) ==
    /\ requests[m].pc = "call_next"
    /\ requests' = [requests EXCEPT ![m] =
            Gone([@ EXCEPT !.pc = "raised", !.handled = @ + 1,
                           !.guarded = requests[m].limited > 0])]
    /\ UNCHANGED <<jobVars, clock, redis, limiter, calls, probe, settings, cache, http>>

\* time passes between two requests
TickBetweenRequests ==
    /\ \A q \in RequestIds : requests[q].pc \in {"idle", "done", "raised"}
    /\ Tick

\* the application with its settings; the global rate_limiter is built from
\* them (line 96)
InitMiddleware ==
    /\ jobs = [j \in JobIds |-> NoRow]
    /\ files = {}
    /\ objects = {}
    /\ handedOver = {}
    /\ llmHealthy = TRUE
    /\ run = [r \in RunIds |-> IdleRun]
    /\ clock = 0
    /\ \E client \in BOOLEAN :
        redis = [client |-> client,
                 zsets  |-> [k \in Keys |-> {}],
                 ttl    |-> [k \in Keys |-> NoTtl]]
    /\ \E dev \in BOOLEAN, dbg \in BOOLEAN, l \in 1..MaxLimit, w \in 1..MaxWindow :
        /\ settings = [is_development |-> dev, debug |-> dbg,
                       rate_limit_requests |-> l, rate_limit_window |-> w]
        /\ limiter = [requests_limit |-> l, window_seconds |-> w]
    /\ calls = [c \in CallIds |-> IdleCall]
    /\ probe = NoProbe
    /\ requests = [m \in RequestIds |-> IdleRequest]
    /\ cache = NoCache
    /\ http = NoHttp

NextMiddleware ==
    \/ \E m \in RequestIds, u \in UserIds, h \in ClientHosts : RateLimitMiddleware(m, u, h)
    \/ \E c \in CallIds : Zremrangebyscore(c)
    \/ \E c \in CallIds : Zcard(c)
    \/ \E c \in CallIds : Zadd(c)
    \/ \E c \in CallIds : Expire(c)
    \/ \E m \in RequestIds : Decide(m)
    \/ \E m \in RequestIds : CallNext(m)
    \/ \E m \in RequestIds : CallNextRaises(m)
    \/ TickBetweenRequests

SpecMiddleware == InitMiddleware /\ [][NextMiddleware]_vars

----------------------------------------------------------------------------
(* CacheManager: core/cache.py lines 61-148.  The store holds one string   *)
(* per key; a store command that raises has not been applied.              *)

\* the values callers cache: two dicts, and an object json.dumps rejects
CacheValues == { <<"dict", "a">>, <<"dict", "b">>, <<"object">> }

\* the ttl arguments of set; 0 stands for None and for 0, which
\* "ttl or self.default_ttl" treats alike
TtlArgs == {0, 1, 10}

\* json.dumps(value), which raises TypeError for a value that is not
\* serializable, and json.loads(string), which raises for a string that is
\* not JSON
Serializable(value) == value[1] = "dict"
dumps(value) == <<"json", value>>
IsJson(string) == string[1] = "json"
loads(string) == string[2]

\* an entry some other writer left under the key
Corrupt == [value |-> <<"corrupt">>, expires |-> NoTtl]

\* what a call leaves in cache.last
CacheCall(op, key, ret, failed) ==
    [op |-> op, key |-> key, ret |-> ret, failed |-> failed, raised |-> FALSE]

\* the result of get(key) (lines 70-82); ok: redis.get did not raise
get(key, ok) ==
    LET value == cache.entries[key].value IN
    IF ~redis.client THEN None
    ELSE IF ~ok THEN None
    ELSE IF value = Absent.value THEN None
    ELSE IF ~IsJson(value) THEN None
    ELSE loads(value)

\* the exception of a failed store command leaves get
CacheGet_Propagates(key, ok) ==
    /\ cache' = [cache EXCEPT !.last =
            [CacheCall("get", key, get(key, ok), redis.client /\ ~ok)
                EXCEPT !.raised = redis.client /\ ~ok]]
    /\ UNCHANGED <<jobVars, clock, redis, limiter, calls, probe, settings, requests, http>>

\* lines 61-82: get
CacheGet(key, ok) ==
    /\ cache' = [cache EXCEPT !.last =
            CacheCall("get", key, get(key, ok),
                      redis.client /\ (~ok \/ (cache.entries[key] # Absent
                                                /\ ~IsJson(cache.entries[key].value))))]
    /\ UNCHANGED <<jobVars, clock, redis, limiter, calls, probe, settings, requests, http>>

\* whether set(key, value, ttl) stores the entry (lines 100-110); ok: setex
\* did not raise
Stores(value, ok) == redis.client /\ Serializable(value) /\ ok

\* the entries after set(key, value, ttl): setex(key, ttl or default_ttl,
\* serialized)
setex(key, value, ttl, ok) ==
    IF Stores(value, ok)
        THEN [cache.entries EXCEPT ![key] =
                [value |-> dumps(value),
                 expires |-> clock + (IF ttl # 0 THEN ttl ELSE DefaultTtl)]]
        ELSE cache.entries

\* lines 84-115: set
CacheSet(key, value, ttl, ok) ==
    /\ cache' = [cache EXCEPT
            !.entries = setex(key, value, ttl, ok),
            !.last = CacheCall("set", key, IF Stores(value, ok) THEN True ELSE False,
                               redis.client /\ ~Stores(value, ok))]
    /\ UNCHANGED <<jobVars, clock, redis, limiter, calls, probe, settings, requests, http>>

\* lines 117-134: delete; result is the number of keys removed
CacheDelete(key, ok) ==
    LET deletes == redis.client /\ ok
        result == IF cache.entries[key] = Absent THEN 0 ELSE 1 IN
    /\ cache' = [cache EXCEPT
            !.entries = IF deletes THEN [@ EXCEPT ![key] = Absent] ELSE @,
            !.last = CacheCall("delete", key,
                               IF deletes /\ result # 0 THEN True ELSE False,
                               redis.client /\ ~ok)]
    /\ UNCHANGED <<jobVars, clock, redis, limiter, calls, probe, settings, requests, http>>

\* a CacheManager whose client is there or is None, over a store that may
\* hold entries of other writers
InitCache ==
    /\ jobs = [j \in JobIds |-> NoRow]
    /\ files = {}
    /\ objects = {}
    /\ handedOver = {}
    /\ llmHealthy = TRUE
    /\ run = [r \in RunIds |-> IdleRun]
    /\ clock = 0
    /\ \E client \in BOOLEAN :
        redis = [client |-> client,
                 zsets  |-> [k \in Keys |-> {}],
                 ttl    |-> [k \in Keys |-> NoTtl]]
    /\ limiter = [requests_limit |-> 1, window_seconds |-> 1]
    /\ calls = [c \in CallIds |-> IdleCall]
    /\ probe = NoProbe
    /\ settings = DefaultSettings
    /\ requests = [m \in RequestIds |-> IdleRequest]
    /\ \E e \in [CacheKeys -> {Absent, Corrupt}] :
        cache = [NoCache EXCEPT !.entries = e]
    /\ http = NoHttp

NextCache ==
    \/ \E k \in CacheKeys, ok \in BOOLEAN : CacheGet(k, ok)
    \/ \E k \in CacheKeys, v \in CacheValues, ttl \in TtlArgs, ok \in BOOLEAN :
            CacheSet(k, v, ttl, ok)
    \/ \E k \in CacheKeys, ok \in BOOLEAN : CacheDelete(k, ok)
    \/ Tick

SpecCache == InitCache /\ [][NextCache]_vars

----------------------------------------------------------------------------
(* The LLM adapters: adapters/llm_adapter.py *)

\* what comes back for the one request of a call: a 200 answer with text,
\* with empty text or with null content; httpx.ConnectError;
\* httpx.TimeoutException; another httpx.HTTPError (the connection breaks
\* while the answer is read); a status other than 200; a 200 answer whose
\* JSON has no "choices" key, whose "choices" is empty, or that is not JSON
HttpOutcomes ==
    {"ok_text", "ok_empty", "null_content", "connect_error", "timeout", "read_error",
     "status_500", "no_choices_key", "empty_choices", "not_json"}

\* lines 369-396: the three adapters the factories build, by model
Adapters == {"qwen", "llama", "deepseek"}
AdapterClass(adapter) == IF adapter = "qwen" THEN "vision" ELSE "text"

\* the adapter methods that send a request
AdapterCalls ==
    {<<a, "generate">> : a \in Adapters} \cup { <<"qwen", "generate_with_image">> }

SystemPrompts == {"None", "", "system"}

\* lines 128-133, 197-202, 262-280: the roles of the messages sent
Messages(system_prompt) ==
    IF Truthy(system_prompt) THEN <<"system", "user">> ELSE <<"user">>

\* the exception that leaves generate / generate_with_image: lines 150-172
\* for the text adapter, which translates ConnectError, TimeoutException
\* and KeyError; lines 219-230 and 297-316 for the vision adapter, which
\* translates ConnectError and TimeoutException only
Raises(adapter, o) ==
    CASE o \in {"connect_error", "timeout"} -> "LLMConnectionError"
      [] o = "status_500" -> "LLMResponseError"
      [] o = "no_choices_key" ->
            IF AdapterClass(adapter) = "text" THEN "LLMResponseError" ELSE "KeyError"
      [] o = "empty_choices" -> "IndexError"
      [] o = "not_json" -> "JSONDecodeError"
      [] o = "read_error" -> "httpx.ReadError"
      [] OTHER -> "none"

\* data["choices"][0]["message"]["content"] of a well-formed answer
Content(o) ==
    CASE o = "ok_text" -> <<"str", "text">>
      [] o = "ok_empty" -> <<"str", "">>
      [] OTHER -> None

\* one call of generate or generate_with_image
Generate(adapter, method, system_prompt, o) ==
    /\ http' = [adapter |-> adapter, method |-> method,
                messages |-> Messages(system_prompt), outcome |-> o,
                sent |-> HttpPosts(o), raised |-> Raises(adapter, o),
                ret |-> IF Raises(adapter, o) = "none" THEN Content(o) ELSE None]
    /\ UNCHANGED <<jobVars, clock, redis, limiter, calls, probe, settings, requests, cache>>

\* the exceptions health_check catches: LLMAdapterError and httpx.HTTPError
\* (line 98)
HealthCheckCatches == {"LLMConnectionError", "LLMResponseError", "httpx.ReadError"}

\* lines 86-100: health_check calls self.generate and returns
\* len(response) > 0, or False for an exception it catches; len(None)
\* raises TypeError
HealthCheck(adapter, o) ==
    LET e == Raises(adapter, o) IN
    /\ http' = [adapter |-> adapter, method |-> "health_check",
                messages |-> Messages("None"), outcome |-> o, sent |-> HttpPosts(o),
                raised |-> IF e \in HealthCheckCatches THEN "none"
                           ELSE IF e # "none" THEN e
                           ELSE IF Content(o) = None THEN "TypeError"
                           ELSE "none",
                ret |-> IF e = "none" /\ Content(o) = <<"str", "text">> THEN True
                        ELSE IF e = "none" /\ Content(o) = None THEN None
                        ELSE IF e = "none" \/ e \in HealthCheckCatches THEN False
                        ELSE None]
    /\ UNCHANGED <<jobVars, clock, redis, limiter, calls, probe, settings, requests, cache>>

NextAdapter ==
    \/ \E a \in AdapterCalls, sp \in SystemPrompts, o \in HttpOutcomes :
            Generate(a[1], a[2], sp, o)
    \/ \E adapter \in Adapters, o \in HttpOutcomes : HealthCheck(adapter, o)

SpecAdapter == Init /\ [][NextAdapter]_vars

----------------------------------------------------------------------------
(* CacheManager.generate_key on its own: core/cache.py lines 136-148 *)

\* the strings given as prefix and components: "job", "123", "result",
\* "prefix", "a:b" and ""
KeyStrings ==
    { <<"j", "o", "b">>, <<"1", "2", "3">>, <<"r", "e", "s", "u", "l", "t">>,
      <<"p", "r", "e", "f", "i", "x">>, <<"a", ":", "b">>, <<>> }

\* the sequences of at most n components
ArgLists(n) == UNION { [1..k -> KeyStrings] : k \in 0..n }

GenerateKey(prefix, args) ==
    /\ cache' = [cache EXCEPT !.key_call =
            [prefix |-> prefix, args |-> args, key |-> generate_key(prefix, args)]]
    /\ UNCHANGED <<jobVars, clock, redis, limiter, calls, probe, settings, requests, http>>

NextKey == \E prefix \in KeyStrings, args \in ArgLists(MaxKeyArgs) : GenerateKey(prefix, args)

SpecKey == Init /\ [][NextKey]_vars

----------------------------------------------------------------------------
(* get_job: api/v1/jobs.py lines 196-274 *)

\* the job id as the string the request carries
JobIdString(j) == <<<<"1", "2", "3">>[j]>>

\* the users that ask for a job
Users == {"u1", "u2"}

\* JobStatus.value (models/job.py lines 12-20)
StatusValue(st) ==
    CASE st = "PENDING" -> "pending"
      [] st = "PROCESSING" -> "processing"
      [] st = "VALIDATING" -> "validating"
      [] st = "EXECUTING" -> "executing"
      [] st = "COMPLETED" -> "completed"
      [] st = "FAILED" -> "failed"

\* lines 250-261: response_data
ResponseData(j) ==
    <<"dict", [job_id |-> JobIdString(j), user_id |-> jobs[j].user_id,
               status |-> StatusValue(jobs[j].status),
               result_url |-> jobs[j].result_url,
               error_message |-> jobs[j].error_message]>>

\* lines 267 and 269: the two TTLs
CompletedJobTtl == 3600
ActiveJobTtl == 10

\* both kinds of job get the long TTL
JobTtl_AlwaysLong(st) == CompletedJobTtl

\* lines 266-269: the TTL by the status of the row
JobTtl(st) == IF st \in {"COMPLETED", "FAILED"} THEN CompletedJobTtl ELSE ActiveJobTtl

\* HTTPException 404
NotFound == <<"404", "Job not found">>

\* any cached snapshot is served
CacheHit_AnyUser(cached, user) == cached # None

\* line 231: cached and cached.get("user_id") == user.user_id
CacheHit(cached, user) == cached # None /\ cached[2].user_id = user

\* lines 227-274: the cached snapshot if it is the requester's; else the
\* row of the requester, cached with the TTL its status selects
GetJob(j, user, okGet, okSet) ==
    LET key == JobKey(JobIdString(j))
        cached == get(key, okGet)
        hit == CacheHit(cached, user)
        found == jobs[j] # NoRow /\ jobs[j].user_id = user
        ttl == JobTtl(jobs[j].status) IN
    /\ cache' =
        IF hit
            THEN [cache EXCEPT
                    !.last = CacheCall("get", key, cached, FALSE),
                    !.get_job = [job_id |-> j, user |-> user, ret |-> cached,
                                 hit |-> TRUE, cached |-> FALSE, ttl |-> 0]]
        ELSE IF ~found
            THEN [cache EXCEPT
                    !.last = CacheCall("get", key, cached, FALSE),
                    !.get_job = [job_id |-> j, user |-> user, ret |-> NotFound,
                                 hit |-> FALSE, cached |-> FALSE, ttl |-> 0]]
        ELSE [cache EXCEPT
                    !.entries = setex(key, ResponseData(j), ttl, okSet),
                    !.last = CacheCall("set", key,
                                       IF Stores(ResponseData(j), okSet)
                                           THEN True ELSE False,
                                       redis.client /\ ~okSet),
                    !.get_job = [job_id |-> j, user |-> user, ret |-> ResponseData(j),
                                 hit |-> FALSE,
                                 cached |-> Stores(ResponseData(j), okSet),
                                 ttl |-> ttl]]
    /\ UNCHANGED <<jobVars, clock, redis, limiter, calls, probe, settings, requests, http>>

\* the jobs table holds rows in any status; the cache is empty
InitGetJob ==
    /\ jobs \in [JobIds -> {NoRow} \cup
                    {[NewJobRow("f1") EXCEPT !.status = st] : st \in JobStatus}]
    /\ files = {}
    /\ objects = {}
    /\ handedOver = {}
    /\ llmHealthy = TRUE
    /\ run = [r \in RunIds |-> IdleRun]
    /\ clock = 0
    /\ \E client \in BOOLEAN :
        redis = [client |-> client,
                 zsets  |-> [k \in Keys |-> {}],
                 ttl    |-> [k \in Keys |-> NoTtl]]
    /\ limiter = [requests_limit |-> 1, window_seconds |-> 1]
    /\ calls = [c \in CallIds |-> IdleCall]
    /\ probe = NoProbe
    /\ settings = DefaultSettings
    /\ requests = [m \in RequestIds |-> IdleRequest]
    /\ cache = NoCache
    /\ http = NoHttp

NextGetJob ==
    \/ \E j \in JobIds, user \in Users, okGet \in BOOLEAN, okSet \in BOOLEAN :
            GetJob(j, user, okGet, okSet)
    \/ Tick

SpecGetJob == InitGetJob /\ [][NextGetJob]_vars

----------------------------------------------------------------------------
(* get_job command by command, while process_job commits: jobs.py lines
   227-274 with tasks.py lines 66, 139 and 154.  The handler awaits the
   cache read, the select and the cache write one after another; a commit
   of the worker or a wait of the client may fall between any two. *)

\* seconds that pass in one wait
WaitSeconds == 4

\* no read is in progress; since: when the row became COMPLETED or FAILED
IdlePoll ==
    [ pc |-> "idle", job_id |-> 1, user |-> "none", response_data |-> None,
      ttl |-> 0, ret |-> None, returned_at |-> 0, since |-> NoTtl ]

\* lines 228-233: the cached snapshot of the requester is returned
PollCacheGet(j, user, ok) ==
    LET cached == get(JobKey(JobIdString(j)), ok) IN
    /\ probe.pc = "idle"
    /\ probe' = IF CacheHit(cached, user)
                    THEN [probe EXCEPT !.job_id = j, !.user = user, !.ret = cached,
                                       !.returned_at = clock]
                    ELSE [probe EXCEPT !.pc = "select", !.job_id = j, !.user = user,
                                       !.ret = None]
    /\ UNCHANGED <<jobVars, restVars, clock, redis, limiter, calls>>

\* lines 236-269: the row of the requester, or 404; response_data and ttl
PollSelect ==
    LET j == probe.job_id IN
    /\ probe.pc = "select"
    /\ probe' = IF jobs[j] # NoRow /\ jobs[j].user_id = probe.user
                    THEN [probe EXCEPT !.pc = "set", !.response_data = ResponseData(j),
                                       !.ttl = JobTtl(jobs[j].status)]
                    ELSE [probe EXCEPT !.pc = "idle", !.ret = NotFound,
                                       !.returned_at = clock]
    /\ UNCHANGED <<jobVars, restVars, clock, redis, limiter, calls>>

\* lines 271-274: the snapshot is cached and returned
PollCacheSet(ok) ==
    /\ probe.pc = "set"
    /\ cache' = [cache EXCEPT !.entries =
            setex(JobKey(JobIdString(probe.job_id)), probe.response_data, probe.ttl, ok)]
    /\ probe' = [probe EXCEPT !.pc = "idle", !.ret = probe.response_data,
                              !.response_data = None, !.returned_at = clock]
    /\ UNCHANGED <<jobVars, clock, redis, limiter, calls, settings, requests, http>>

\* tasks.py line 66: the worker commits PROCESSING
WorkerCommitsProcessing(j) ==
    /\ jobs[j] # NoRow /\ jobs[j].status = "PENDING"
    /\ jobs' = [jobs EXCEPT ![j].status = "PROCESSING"]
    /\ UNCHANGED <<files, objects, handedOver, llmHealthy, run, auxVars>>

\* tasks.py lines 139 and 154: the worker commits COMPLETED or FAILED
WorkerCommitsTerminal(j, st) ==
    /\ jobs[j] # NoRow /\ jobs[j].status = "PROCESSING"
    /\ jobs' = [jobs EXCEPT ![j].status = st]
    /\ probe' = [probe EXCEPT !.since = clock]
    /\ UNCHANGED <<files, objects, handedOver, llmHealthy, run, restVars,
                   clock, redis, limiter, calls>>

\* time passes; Redis removes the entries whose expiry is reached
Wait ==
    /\ clock < MaxWaits * WaitSeconds
    /\ clock' = clock + WaitSeconds
    /\ LET due(k) == cache.entries[k].expires # NoTtl
                        /\ cache.entries[k].expires <= clock + WaitSeconds IN
       cache' = [cache EXCEPT
            !.entries = [k \in CacheKeys |-> IF due(k) THEN Absent ELSE @[k]]]
    /\ UNCHANGED <<jobVars, settings, requests, http, redis, limiter, calls, probe>>

\* a job just created, the cache empty
InitPoll ==
    /\ jobs = [j \in JobIds |-> NewJobRow("f1")]
    /\ files = {}
    /\ objects = {}
    /\ handedOver = {}
    /\ llmHealthy = TRUE
    /\ run = [r \in RunIds |-> IdleRun]
    /\ clock = 0
    /\ \E client \in BOOLEAN :
        redis = [client |-> client,
                 zsets  |-> [k \in Keys |-> {}],
                 ttl    |-> [k \in Keys |-> NoTtl]]
    /\ limiter = [requests_limit |-> 1, window_seconds |-> 1]
    /\ calls = [c \in CallIds |-> IdleCall]
    /\ probe = IdlePoll
    /\ RestIdle

NextPoll ==
    \/ \E j \in JobIds, user \in Users, ok \in BOOLEAN : PollCacheGet(j, user, ok)
    \/ PollSelect
    \/ \E ok \in BOOLEAN : PollCacheSet(ok)
    \/ \E j \in JobIds : WorkerCommitsProcessing(j)
    \/ \E j \in JobIds, st \in TerminalStatus : WorkerCommitsTerminal(j, st)
    \/ Wait

SpecPoll == InitPoll /\ [][NextPoll]_vars

----------------------------------------------------------------------------
(* Properties *)

JobOf(r) == run[r].job_id
LlmOps == {"llm:analyze", "llm:plan", "llm:generate"}

LifecycleEdges ==
    { <<"PENDING", "PROCESSING">>, <<"PROCESSING", "COMPLETED">>,
      <<"PROCESSING", "FAILED">> }

\* C2: the persisted status of a job only moves along PENDING ->
\* PROCESSING -> {COMPLETED, FAILED}; once COMPLETED or FAILED is
\* persisted no run of process_job changes the status again.
C2_StatusMonotonic ==
    [][\A j \in JobIds :
          jobs[j] # NoRow =>
              \/ jobs'[j].status = jobs[j].status
              \/ <<jobs[j].status, jobs'[j].status>> \in LifecycleEdges]_vars

\* C3: a run that persisted PROCESSING has, when it ends (returns or
\* raises), left the job COMPLETED or FAILED, and FAILED comes with a
\* non-empty error_message.
C3_ProcessingResolves ==
    \A r \in RunIds :
        Finished(r) /\ run[r].commits >= 1 =>
            /\ run[r].exitRow.status \in TerminalStatus
            /\ run[r].exitRow.status = "FAILED" =>
                    run[r].exitRow.error_message # NULL

\* C4: every job create_job has persisted has been handed to process_job.
C4_CreatedJobsHandedOver ==
    \A j \in JobIds : jobs[j] # NoRow => j \in handedOver

\* C5: once a run has reached the download (StorageService() has asked
\* for the bucket) or issued an inference call, the job's persisted
\* status is not PENDING.
C5_ProcessingBeforeSideEffects ==
    \A r \in RunIds :
        run[r].ops # {} \/ run[r].pc = "run_agent" =>
            jobs[JobOf(r)] # NoRow /\ jobs[JobOf(r)].status # "PENDING"

C5_Witness ==
    \E r \in RunIds :
        /\ "bucket_exists" \in run[r].ops
        /\ jobs[JobOf(r)].status = "PROCESSING"

\* C6: a run on a job whose file row exists and whose bytes are in storage,
\* with storage reachable and the three endpoints answering well (valid,
\* non-empty code), ends with the job COMPLETED, result_url the job's
\* artifact path and error_message NULL.
C6_HappyPathCompletes ==
    \A r \in RunIds :
        /\ run[r].pc = "done"
        /\ run[r].file # "none"
        /\ UploadPath(run[r].file) \in objects
        /\ run[r].exc # MinioUnreachableMsg
        /\ llmHealthy
        => /\ run[r].exitRow.status = "COMPLETED"
           /\ run[r].exitRow.result_url = ResultPath(JobOf(r))
           /\ run[r].exitRow.error_message = NULL

\* C7: when the file row of the job is missing, the run takes the
\* not-found branch: it issues no storage and no inference call, and when
\* it returns the job is persisted FAILED with an error_message containing
\* "not found".
C7_FileRowMissing ==
    /\ [][\A r \in RunIds :
            /\ run[r].pc = "load_file"
            /\ run'[r] # run[r]
            /\ jobs[JobOf(r)].file_id \notin files
            => run'[r].ret = "File not found" /\ run'[r].pc = "commit_failed"]_vars
    /\ [](\A r \in RunIds :
            run[r].ret = "File not found" =>
                /\ run[r].ops = {}
                /\ run[r].pc = "done" =>
                    /\ run[r].exitRow.status = "FAILED"
                    /\ Contains(run[r].exitRow.error_message, <<"not", "found">>))

C7_Witness ==
    \E r \in RunIds :
        /\ run[r].pc = "done"
        /\ run[r].ret = "File not found"
        /\ jobs[JobOf(r)].status = "FAILED"
        /\ jobs[JobOf(r)].error_message = FileNotFoundMsg

\* C8: a run whose job id has no row returns "Job not found" and changes
\* nothing: no row is written, no storage call and no inference call made.
C8_UnknownJobNoEffect ==
    [][\A r \in RunIds :
          /\ run[r].pc = "idle"
          /\ run'[r] # run[r]
          /\ jobs[run'[r].job_id] = NoRow
          => /\ run'[r].pc = "done"
             /\ run'[r].ret = "Job not found"
             /\ run'[r].ops = {}
             /\ run'[r].commits = 0
             /\ jobs' = jobs /\ files' = files /\ objects' = objects]_vars

C8_Witness ==
    \E r \in RunIds :
        /\ run[r].pc = "done"
        /\ run[r].ret = "Job not found"
        /\ jobs[JobOf(r)] = NoRow

\* C9: a run whose download failed makes no inference call, and when it
\* returns the job is persisted FAILED with an error_message that contains
\* the message of the underlying error and with result_url NULL.
C9_DownloadFailure ==
    \A r \in RunIds :
        run[r].ret = "download failed" =>
            /\ run[r].exc # NULL
            /\ run[r].ops \cap LlmOps = {}
            /\ run[r].pc = "done" =>
                /\ run[r].exitRow.status = "FAILED"
                /\ Contains(run[r].exitRow.error_message, run[r].exc)
                /\ run[r].exitRow.result_url = NULL

C9_Witness ==
    \E r \in RunIds :
        /\ run[r].pc = "done"
        /\ run[r].ret = "download failed"
        /\ jobs[JobOf(r)].status = "FAILED"
        /\ jobs[JobOf(r)].error_message = DownloadFailedMsg(AttributeErrorMsg("download"))

C12_ErrorShortCircuit ==
    [][\A r \in RunIds :
          run[r].agent.current_step = "error" /\ run[r].agent.error # NULL =>
              /\ run'[r].agent = run[r].agent
              /\ run'[r].stages = run[r].stages
              /\ run'[r].ops \cap LlmOps = run[r].ops \cap LlmOps]_vars

C12_Witness ==
    \E r \in RunIds :
        /\ run[r].pc = "done"
        /\ run[r].agent.current_step = "error"
        /\ run[r].stages = <<"analyze_image">>
        /\ run[r].ops \cap LlmOps = {"llm:analyze"}
        /\ run[r].exitRow.error_message = run[r].agent.error

StageOrder == <<"analyze_image", "plan_approach", "generate_code">>

\* the step each stage starts from
StepBefore(node) ==
    IF node = "analyze_image" THEN "start"
    ELSE IF node = "plan_approach" THEN "analyze_complete"
    ELSE "planning_complete"

StepEdges ==
    { <<"start", "analyze_complete">>, <<"analyze_complete", "planning_complete">>,
      <<"planning_complete", "codegen_complete">>,
      <<"planning_complete", "codegen_complete_with_errors">>,
      <<"start", "error">>, <<"analyze_complete", "error">>,
      <<"planning_complete", "error">> }

\* C13: the stages of a run execute in the order analyze, plan, generate,
\* each at most once; a stage runs only from the step its predecessor
\* completed with; current_step moves along start -> analyze_complete ->
\* planning_complete -> {codegen_complete, codegen_complete_with_errors} or
\* to error, and after a final step the workflow state does not change.
C13_StagesInOrder ==
    /\ [](\A r \in RunIds :
            /\ Len(run[r].stages) <= Len(StageOrder)
            /\ run[r].stages = SubSeq(StageOrder, 1, Len(run[r].stages)))
    /\ [][\A r \in RunIds :
            /\ run'[r].stages # run[r].stages =>
                    /\ Len(run'[r].stages) = Len(run[r].stages) + 1
                    /\ run[r].agent.current_step =
                            StepBefore(run'[r].stages[Len(run'[r].stages)])
            /\ run'[r].agent.current_step # run[r].agent.current_step =>
                    <<run[r].agent.current_step, run'[r].agent.current_step>>
                        \in StepEdges
            /\ run[r].agent.current_step \in
                    {"codegen_complete", "codegen_complete_with_errors", "error"}
                    => run'[r].agent = run[r].agent /\ run'[r].stages = run[r].stages]_vars

C13_Witness ==
    \E r \in RunIds :
        /\ run[r].pc = "done"
        /\ run[r].stages = StageOrder
        /\ run[r].agent.current_step = "codegen_complete"

\* C14: whatever failure the inference call of a stage meets (connection
\* error, response error, any other exception), the stage returns error
\* set and current_step "error"; no run ends by an exception, and a run
\* that returned left the job COMPLETED or FAILED.
C14_FailuresAreData ==
    \A r \in RunIds :
        /\ \A o \in LlmFailures :
            LET st == run[r].agent IN
            /\ CallsModel("analyze_image", st) =>
                    /\ analyze_image(st, o).error # NULL
                    /\ analyze_image(st, o).current_step = "error"
            /\ CallsModel("plan_approach", st) =>
                    /\ plan_approach(st, o).error # NULL
                    /\ plan_approach(st, o).current_step = "error"
            /\ CallsModel("generate_code", st) =>
                    /\ generate_code(st, o).error # NULL
                    /\ generate_code(st, o).current_step = "error"
        /\ run[r].pc # "raised"
        /\ run[r].pc = "done" => run[r].exitRow.status \in TerminalStatus

C14_Witness ==
    \E r \in RunIds :
        /\ run[r].pc = "done"
        /\ run[r].agent.current_step = "error"
        /\ Contains(run[r].agent.error, <<"failed:">> \o LlmErrorMsg("other_error"))
        /\ run[r].exitRow.status = "FAILED"
        /\ run[r].exitRow.error_message = run[r].agent.error

\* C15: the router's answer is fixed by (current_step, error): error set
\* with current_step "error" terminates; otherwise analyze_complete goes to
\* the planning stage, planning_complete to the code-generation stage, and
\* every other current_step (the two codegen steps, unset, anything else)
\* terminates.
C15_RouterTable ==
    probe.next # "none" =>
        probe.next =
            CASE probe.error # NULL /\ probe.current_step = "error" -> "END"
              [] probe.current_step = "analyze_complete" -> "plan_approach"
              [] probe.current_step = "planning_complete" -> "generate_code"
              [] OTHER -> "END"

C15_Witness ==
    /\ probe.current_step = "analyze_complete"
    /\ probe.error = <<"x">>
    /\ probe.generated_code = "invalid"
    /\ probe.next = "plan_approach"

\* the calls for id that were admitted at a time newer than (now - window)
AdmittedInWindow(id) ==
    { c \in CallIds :
        /\ calls[c].pc = "done"
        /\ calls[c].allowed
        /\ calls[c].id = id
        /\ calls[c].now > clock - limiter.window_seconds }

\* C16: with the store reachable, however concurrent is_allowed calls on
\* an identifier interleave, the number of admitted calls whose timestamps
\* are newer than (now - window) never exceeds the limit.
C16_AtomicPerIdentifier ==
    redis.client =>
        \A id \in Identifiers :
            Cardinality(AdmittedInWindow(id)) <= limiter.requests_limit

\* C17: with the store reachable and calls issued one after another (never
\* two in flight), at every instant the number of admitted calls whose
\* timestamps are newer than (now - window) does not exceed the limit.
C17_SequentialWithinLimit ==
    /\ \A c \in CallIds, q \in CallIds : InFlight(c) /\ InFlight(q) => c = q
    /\ redis.client =>
            \A id \in Identifiers :
                Cardinality(AdmittedInWindow(id)) <= limiter.requests_limit

\* C18: with the store reachable and c entries left in the window after
\* pruning, the call returns (True, limit - c - 1) and records its
\* timestamp if c < limit, and returns (False, 0) if c >= limit.
C18_CountDecides ==
    /\ [](\A c \in CallIds :
            redis.client /\ calls[c].pc = "done" =>
                /\ calls[c].allowed <=> calls[c].count < limiter.requests_limit
                /\ calls[c].remaining =
                        IF calls[c].count < limiter.requests_limit
                            THEN limiter.requests_limit - calls[c].count - 1
                            ELSE 0
                /\ calls[c].allowed => "zadd" \in calls[c].wrote)
    /\ [][\A c \in CallIds :
            /\ calls[c].pc = "zcard" /\ calls'[c].pc # "zcard" =>
                    calls'[c].count = Cardinality(redis.zsets[Key(calls[c].id)])
            /\ "zadd" \in calls'[c].wrote /\ "zadd" \notin calls[c].wrote =>
                    calls[c].now \in redis'.zsets[Key(calls[c].id)]]_vars

C18_Witness ==
    \E c \in CallIds, q \in CallIds :
        /\ limiter.requests_limit = 2
        /\ calls[c].pc = "done" /\ calls[c].allowed
        /\ calls[c].count = 1 /\ calls[c].remaining = 0
        /\ calls[q].pc = "done" /\ ~calls[q].allowed
        /\ calls[q].count = 2 /\ calls[q].remaining = 0

\* C19: a denied call records nothing: its only change to the store is
\* the removal of entries that fell out of the window; the recorded
\* timestamps that remain and the expiry of the key stay as they were.
C19_DeniedRecordsNothing ==
    /\ [](\A c \in CallIds :
            redis.client /\ calls[c].pc = "done" /\ ~calls[c].allowed =>
                calls[c].wrote \subseteq {"zremrangebyscore"})
    /\ [][\A c \in CallIds :
            /\ calls[c].pc = "zcard" /\ calls'[c].pc = "done" => redis' = redis
            /\ calls[c].pc = "zremrangebyscore" /\ calls'[c].pc = "zcard" =>
                    LET key == Key(calls[c].id) IN
                    /\ redis'.zsets[key] \subseteq redis.zsets[key]
                    /\ \A t \in redis.zsets[key] \ redis'.zsets[key] :
                            t <= calls[c].now - limiter.window_seconds
                    /\ redis'.zsets[key] # {} => redis'.ttl[key] = redis.ttl[key]]_vars

C19_Witness ==
    \E c \in CallIds :
        /\ redis.client
        /\ calls[c].pc = "done" /\ ~calls[c].allowed
        /\ calls[c].wrote = {}
        /\ calls[c].now \notin redis.zsets[Key(calls[c].id)]
        /\ redis.zsets[Key(calls[c].id)] # {}

\* C20: a call made without a store client, or in which a store command
\* raised, returns (True, limit); no call ends other than by returning.
C20_FailsOpen ==
    \A c \in CallIds :
        /\ calls[c].pc \in {"idle", "zremrangebyscore", "zcard", "zadd", "expire", "done"}
        /\ calls[c].pc = "done" /\ (~redis.client \/ calls[c].failed) =>
                /\ calls[c].allowed
                /\ calls[c].remaining = limiter.requests_limit

C20_Witness ==
    \E c \in CallIds, q \in CallIds :
        /\ calls[c].pc = "done" /\ calls[c].failed
        /\ "zadd" \in calls[c].wrote
        /\ calls[c].allowed /\ calls[c].remaining = limiter.requests_limit
        /\ calls[q].pc = "done" /\ calls[q].failed /\ calls[q].wrote = {}

\* the calls before c that recorded a timestamp for the identifier of c
RecordedBefore(c) ==
    { q \in CallIds : q < c /\ calls[q].id = calls[c].id /\ "zadd" \in calls[q].wrote }

\* C21: a step of an is_allowed call for identifier A leaves the recorded
\* window and the expiry of every other identifier B as they were, and the
\* count a call for B decides on is bounded by the timestamps recorded by
\* earlier calls for B, whatever calls were made for other identifiers.
C21_IdentifiersIndependent ==
    /\ [](\A c \in CallIds :
            redis.client /\ calls[c].pc = "done" =>
                /\ calls[c].count <= Cardinality(RecordedBefore(c))
                /\ RecordedBefore(c) = {} => calls[c].allowed)
    /\ [][\A c \in CallIds, b \in Identifiers :
            calls'[c] # calls[c] /\ b # calls'[c].id =>
                /\ redis'.zsets[Key(b)] = redis.zsets[Key(b)]
                /\ redis'.ttl[Key(b)] = redis.ttl[Key(b)]]_vars

C21_Witness ==
    /\ redis.client
    /\ limiter.requests_limit = 1
    /\ calls[1].pc = "done" /\ calls[1].id = "u1" /\ calls[1].allowed
    /\ calls[2].pc = "done" /\ calls[2].id = "u1" /\ ~calls[2].allowed
    /\ calls[3].pc = "done" /\ calls[3].id = "u2" /\ calls[3].allowed
    /\ calls[3].count = 0
    /\ redis.zsets[Key("u1")] # {} /\ redis.zsets[Key("u2")] # {}

\* the names of the headers of a response
HeaderNames(m) == {h[1] : h \in requests[m].headers}

\* C22: a request is_allowed denied is answered 429 with the headers
\* X-RateLimit-Limit, X-RateLimit-Remaining: 0, X-RateLimit-Reset and
\* Retry-After and its handler is never invoked; a request is_allowed
\* admitted has its handler run once, and the response carries
\* X-RateLimit-Limit and X-RateLimit-Remaining with the remaining value
\* is_allowed returned.
C22_MiddlewareResponses ==
    \A m \in RequestIds :
        /\ requests[m].handled <= 1
        /\ requests[m].limited > 0 /\ requests[m].pc \in {"call_next", "done", "raised"} =>
            IF ~calls[m].allowed
                THEN /\ requests[m].pc = "done"
                     /\ requests[m].handled = 0
                     /\ requests[m].status = 429
                     /\ HeaderNames(m) = {"X-RateLimit-Limit", "X-RateLimit-Remaining",
                                          "X-RateLimit-Reset", "Retry-After"}
                     /\ <<"X-RateLimit-Remaining", Str(0)>> \in requests[m].headers
                ELSE /\ requests[m].pc # "call_next" => requests[m].handled = 1
                     /\ requests[m].pc = "done" =>
                            /\ requests[m].status \in HandlerStatus
                            /\ <<"X-RateLimit-Limit", Str(settings.rate_limit_requests)>>
                                    \in requests[m].headers
                            /\ <<"X-RateLimit-Remaining", Str(calls[m].remaining)>>
                                    \in requests[m].headers

C22_Witness ==
    /\ requests[1].pc = "done" /\ requests[1].status = 200
    /\ calls[1].allowed /\ calls[1].remaining = 0 /\ calls[1].count = 0
    /\ requests[2].pc = "done" /\ requests[2].status = 429
    /\ ~calls[2].allowed /\ requests[2].handled = 0

\* C23: in every configuration, is_allowed is called for a request before
\* its handler is invoked.
C23_EveryRequestLimited ==
    \A m \in RequestIds :
        requests[m].handled > 0 => requests[m].limited > 0 /\ requests[m].guarded

\* C23 as amended: unless the application runs in development with debug
\* on, is_allowed is called for a request, and has returned, before its
\* handler is invoked.
C23_LimitedOutsideDevDebug ==
    ~(settings.is_development /\ settings.debug) =>
        \A m \in RequestIds :
            /\ requests[m].guarded
            /\ requests[m].pc \in {"call_next", "done", "raised"} =>
                    requests[m].limited = 1 /\ calls[m].pc = "done"

C23_Witness ==
    /\ settings.is_development /\ ~settings.debug
    /\ requests[1].pc = "raised" /\ requests[1].handled = 1 /\ requests[1].limited = 1
    /\ requests[2].pc = "done" /\ requests[2].handled = 1 /\ requests[2].limited = 1

\* C24: a cache call made without a store client, or whose store command
\* or JSON conversion fails, raises nothing, returns None (get) or False
\* (set, delete), and leaves the stored entries as they were.
C24_CacheDegrades ==
    /\ [](/\ ~cache.last.raised
          /\ cache.last.op # "none" /\ (~redis.client \/ cache.last.failed) =>
                cache.last.ret = IF cache.last.op = "get" THEN None ELSE False)
    /\ [][cache'.last # cache.last /\ (~redis.client \/ cache'.last.failed) =>
            cache'.entries = cache.entries]_vars

C24_Witness ==
    /\ redis.client
    /\ cache.last.op = "set" /\ cache.last.failed /\ cache.last.ret = False
    /\ \E k \in CacheKeys : IsJson(cache.entries[k].value)

\* C25: when get_job caches a snapshot, the TTL is a single-digit number
\* of seconds while the status is PENDING, PROCESSING, VALIDATING or
\* EXECUTING, and an hour or more once it is COMPLETED or FAILED.
C25_TtlByStatus ==
    cache.get_job.cached =>
        LET st == jobs[cache.get_job.job_id].status IN
        /\ st \in JobStatus \ TerminalStatus =>
                1 <= cache.get_job.ttl /\ cache.get_job.ttl <= 9
        /\ st \in TerminalStatus => cache.get_job.ttl >= 3600

\* C25 as amended: when get_job caches a snapshot, the entry expires 10
\* seconds later while the status is PENDING, PROCESSING, VALIDATING or
\* EXECUTING, and 3600 seconds later once it is COMPLETED or FAILED.
C25_TtlTenOrHour ==
    [][cache'.get_job # cache.get_job /\ cache'.get_job.cached =>
        LET j == cache'.get_job.job_id
            ttl == IF jobs[j].status \in TerminalStatus THEN 3600 ELSE 10 IN
        /\ cache'.get_job.ttl = ttl
        /\ cache'.entries[JobKey(JobIdString(j))] =
                [value |-> dumps(ResponseData(j)), expires |-> clock + ttl]]_vars

C25_Witness ==
    \E j \in JobIds :
        /\ jobs[j] # NoRow /\ jobs[j].status = "EXECUTING"
        /\ cache.get_job.cached /\ cache.get_job.ttl = 10
        /\ cache.entries[JobKey(JobIdString(j))].expires = clock + 10

\* where component i starts in the key, less one: after the prefix and the
\* components before it, each with the ':' in front of it
RECURSIVE KeyOffset(_, _, _)
KeyOffset(prefix, args, i) ==
    IF i = 1 THEN Len(prefix) + 1
    ELSE KeyOffset(prefix, args, i - 1) + Len(args[i - 1]) + 1

\* C26: generate_key returns the prefix followed by the components in
\* order, each preceded by ':'; generate_key("job", "123", "result") is
\* "job:123:result", and with the prefix alone the key is the prefix.
C26_GenerateKey ==
    LET prefix == cache.key_call.prefix
        args == cache.key_call.args
        key == cache.key_call.key
        n == Len(args) IN
    cache.key_call # NoKeyCall =>
        /\ Len(key) = IF n = 0 THEN Len(prefix)
                       ELSE KeyOffset(prefix, args, n) + Len(args[n])
        /\ SubSeq(key, 1, Len(prefix)) = prefix
        /\ \A i \in 1..n :
               /\ key[KeyOffset(prefix, args, i)] = ":"
               /\ SubSeq(key, KeyOffset(prefix, args, i) + 1,
                          KeyOffset(prefix, args, i) + Len(args[i])) = args[i]
        /\ n = 0 => key = prefix
        /\ prefix = <<"j", "o", "b">>
                /\ args = << <<"1", "2", "3">>, <<"r", "e", "s", "u", "l", "t">> >> =>
                    key = <<"j", "o", "b", ":", "1", "2", "3", ":",
                            "r", "e", "s", "u", "l", "t">>

C26_Witness ==
    /\ cache.key_call.prefix = <<"j", "o", "b">>
    /\ cache.key_call.args = << <<"1", "2", "3">>, <<"r", "e", "s", "u", "l", "t">> >>
    /\ Len(cache.key_call.key) = 14

\* the requests of run r that node sent
PostsOf(r, node) == Cardinality({k \in DOMAIN run[r].posts : run[r].posts[k] = node})

\* C27: no retries: a stage that calls its adapter sends exactly one HTTP
\* request whatever the answer, a stage that failed is not run again, and
\* one workflow run sends at most one request per stage, three in all.
C27_NoRetries ==
    \A r \in RunIds :
        /\ Len(run[r].posts) <= 3
        /\ \A node \in {"analyze_image", "plan_approach", "generate_code"} :
            /\ PostsOf(r, node) <= 1
            /\ Cardinality({k \in DOMAIN run[r].stages : run[r].stages[k] = node}) <= 1
        /\ ("llm:analyze" \in run[r].ops) <=> (PostsOf(r, "analyze_image") = 1)
        /\ ("llm:plan" \in run[r].ops) <=> (PostsOf(r, "plan_approach") = 1)
        /\ ("llm:generate" \in run[r].ops) <=> (PostsOf(r, "generate_code") = 1)

C27_Witness ==
    \E r \in RunIds :
        /\ run[r].posts = <<"analyze_image", "plan_approach", "generate_code">>
        /\ run[r].agent.current_step = "error"
        /\ run[r].agent.next = "END"

\* C28: on either adapter, a call that fails by a connect failure or a
\* timeout raises LLMConnectionError, and a call that fails by a status
\* other than 200 or by a malformed response body raises LLMResponseError;
\* no other kind of exception reaches the caller for these outcomes.
C28_TwoErrorKinds ==
    http.method \in {"generate", "generate_with_image"} =>
        /\ http.outcome \in {"connect_error", "timeout"} =>
                http.raised = "LLMConnectionError"
        /\ http.outcome \in {"status_500", "no_choices_key", "empty_choices", "not_json"} =>
                http.raised = "LLMResponseError"

C28_Witness ==
    /\ http.method = "generate" /\ http.adapter = "deepseek"
    /\ http.outcome = "no_choices_key"
    /\ http.raised = "LLMResponseError"

\* C29: health_check returns a boolean for every outcome of the generate
\* call (an answer, a connection failure, a status other than 200, a
\* malformed body), never lets an exception out, and returns True only
\* when the endpoint answered.
C29_HealthCheckBoolean ==
    http.method = "health_check" =>
        /\ http.raised = "none"
        /\ http.ret \in {True, False}
        /\ http.ret = True => http.outcome = "ok_text"

C29_Witness ==
    /\ http.method = "health_check" /\ http.adapter = "llama"
    /\ http.outcome = "no_choices_key"
    /\ http.raised = "none" /\ http.ret = False

\* C30: a generate stage whose adapter call returned ends in one of two
\* ways: the extracted code does not compile, and the stage returns it in
\* generated_code with current_step codegen_complete_with_errors and an
\* error that describes the syntax problem; or it compiles, and the stage
\* returns it with current_step codegen_complete and error null.
C30_InvalidCodeReturned ==
    [][\A r \in RunIds :
        LET before == run[r].agent
            after == run'[r].agent
            reply == run'[r].reply IN
        Len(run'[r].stages) = Len(run[r].stages) + 1
            /\ run'[r].stages[Len(run'[r].stages)] = "generate_code"
            /\ Truthy(before.image_analysis) =>
                /\ reply \in CodeReplies \cup LlmFailures
                /\ reply = "invalid" =>
                       /\ after.current_step = "codegen_complete_with_errors"
                       /\ after.generated_code = "invalid"
                       /\ after.error # NULL
                       /\ Contains(after.error, <<"syntax", "errors:">>)
                /\ reply \in {"valid", "blank"} =>
                       /\ after.current_step = "codegen_complete"
                       /\ after.generated_code = IF reply = "blank" THEN "" ELSE "valid"
                       /\ after.error = NULL
                /\ reply \in LlmFailures =>
                       /\ after.current_step = "error"
                       /\ after.generated_code = before.generated_code]_vars

C30_Witness ==
    \E r \in RunIds :
        /\ run[r].stages = <<"analyze_image", "plan_approach", "generate_code">>
        /\ run[r].agent.current_step = "codegen_complete_with_errors"
        /\ run[r].reply = "invalid"
        /\ run[r].agent.generated_code = "invalid"
        /\ run[r].agent.error # NULL

\* the input the stage of a node requires
RequiredInput(node, st) ==
    IF node = "analyze_image" THEN st.image_data ELSE st.image_analysis

\* C31: a stage whose required input is absent or empty (the image bytes
\* for analyze, the analysis text for plan and generate) returns error set
\* and current_step "error", changes nothing else and sends no request.
C31_MissingInputFailsAsData ==
    probe # NoProbe /\ RequiredInput(probe.node, probe.before) \in {"None", ""} =>
        /\ probe.after.error # NULL
        /\ probe.after.current_step = "error"
        /\ probe.after.next = "END"
        /\ probe.posts = <<>>
        /\ probe.after = [probe.before EXCEPT !.error = probe.after.error,
                                              !.current_step = "error",
                                              !.next = "END"]

C31_Witness ==
    /\ probe # NoProbe
    /\ probe.node = "generate_code"
    /\ probe.before.image_data = "bytes" /\ probe.before.image_analysis = ""
    /\ probe.after.current_step = "error" /\ probe.posts = <<>>

\* the content of the most recent message of the human, "" when none
RECURSIVE LastHuman(_)
LastHuman(messages) ==
    IF messages = <<>> THEN ""
    ELSE IF messages[Len(messages)].type = "human" THEN messages[Len(messages)].content
    ELSE LastHuman(SubSeq(messages, 1, Len(messages) - 1))

FencePositions(text) == { i \in 1..Len(text) : text[i] = "F" }

\* the k-th smallest element of a set of positions
RECURSIVE Nth(_, _)
Nth(S, k) ==
    LET least == CHOOSE i \in S : \A j \in S : i <= j IN
    IF k = 1 THEN least ELSE Nth(S \ {least}, k - 1)

\* the fenced blocks of a text: its fences taken in pairs, each with the
\* text between the two
FencedBlocks(text) ==
    LET F == FencePositions(text) IN
    [ k \in 1..(Cardinality(F) \div 2) |->
        SubSeq(text, Nth(F, 2 * k - 1) + 1, Nth(F, 2 * k) - 1) ]

\* a block is tagged python when python directly follows its opening fence
TaggedPython(inner) == inner # <<>> /\ inner[1] = "python"

\* a block is untagged when nothing stands on the line of its opening
\* fence, or when it has one line only
Untagged(inner) ==
    /\ ~TaggedPython(inner)
    /\ \/ inner = <<>>
       \/ inner[1] = "nl"
       \/ \A i \in 1..Len(inner) : inner[i] # "nl"

\* what the text should yield: the first python block, otherwise the first
\* untagged block, otherwise the whole text
FirstBlockOrText(text) ==
    LET blocks == FencedBlocks(text)
        py == { k \in 1..Len(blocks) : TaggedPython(blocks[k]) }
        un == { k \in 1..Len(blocks) : Untagged(blocks[k]) }
    IN  IF py # {} THEN strip(Tail(blocks[Nth(py, 1)]))
        ELSE IF un # {} THEN strip(blocks[Nth(un, 1)])
        ELSE strip(text)

\* C32: extract_python_code returns the trimmed inner text of the first
\* fenced block tagged python when there is one, otherwise that of the
\* first untagged fenced block when there is one, otherwise the whole
\* input trimmed.
C32_ExtractPythonCode ==
    probe # NoProbe => probe.code = FirstBlockOrText(probe.text)

\* a block tagged with another language: its tag comes back with its text
C32_Witness ==
    /\ probe # NoProbe
    /\ probe.text = <<"F", "x", "nl", "x", "F">>
    /\ probe.code = <<"x", "nl", "x">>

\* C35: when a workflow run has ended, error is set exactly when
\* current_step is "error" or "codegen_complete_with_errors",
\* generated_code is set exactly when current_step is "codegen_complete" or
\* "codegen_complete_with_errors", and a current_step of
\* "planning_complete" or later comes with the analysis text set.
C35_FinalStateConsistent ==
    \A r \in RunIds :
        run[r].stages # <<>> /\ run[r].agent.next = "END" =>
            LET fs == run[r].agent IN
            /\ fs.error # NULL <=>
                  fs.current_step \in {"error", "codegen_complete_with_errors"}
            /\ fs.generated_code # "None" <=>
                  fs.current_step \in {"codegen_complete", "codegen_complete_with_errors"}
            /\ fs.current_step \in {"planning_complete", "codegen_complete",
                                    "codegen_complete_with_errors"} =>
                  fs.image_analysis # "None"

C35_Witness ==
    \E r \in RunIds :
        /\ run[r].stages = <<"analyze_image", "plan_approach", "generate_code">>
        /\ run[r].agent.next = "END"
        /\ run[r].agent.current_step = "codegen_complete_with_errors"
        /\ run[r].agent.error # NULL
        /\ run[r].agent.generated_code = "invalid"

\* the run's workflow succeeded and its upload of the result failed
UploadFailed(r) ==
    /\ run[r].pc = "done"
    /\ run[r].agent.error = NULL /\ Truthy(run[r].agent.generated_code)
    /\ run[r].exc # NULL

AdmittedNewerThanWindow(c) ==
    { q \in CallIds \ {c} :
        /\ calls[q].id = calls[c].id
        /\ "zadd" \in calls[q].wrote
        /\ calls[q].now > calls[c].now - limiter.window_seconds }

\* C37: with the store reachable, a call at time t is denied only when at
\* least limit calls for its identifier were admitted at times newer than
\* (t - window); denied calls are not among them, so a denied identifier
\* is admitted again once enough admitted calls have left the window.
C37_NoFalseDenials ==
    [][\A c \in CallIds :
          /\ redis.client
          /\ calls[c].pc = "zcard" /\ calls'[c].pc = "done" /\ ~calls'[c].allowed
          => Cardinality(AdmittedNewerThanWindow(c)) >= limiter.requests_limit]_vars

\* a call that waited a whole window before it recorded its timestamp
\* makes a later call find the set full
C37_Witness ==
    /\ redis.client
    /\ limiter.requests_limit = 1 /\ limiter.window_seconds = 1
    /\ calls[1].id = "u1" /\ calls[1].now = 0 /\ "zadd" \in calls[1].wrote
    /\ calls[2].pc = "done" /\ calls[2].id = "u1" /\ calls[2].now = 1
    /\ ~calls[2].allowed
    /\ calls[3].pc = "idle"

\* the calls for an identifier that returned admitted
AdmittedCalls(id) ==
    { c \in CallIds : calls[c].pc = "done" /\ calls[c].id = id /\ calls[c].allowed }

\* C38: with the store reachable and no call in flight, after k admitted
\* calls for an identifier whose timestamps are all inside the window, the
\* identifier's sorted set holds k entries, whatever clock values the calls
\* read, equal ones included.
C38_OneEntryPerAdmittedCall ==
    redis.client /\ (\A c \in CallIds : ~InFlight(c)) =>
        \A id \in Identifiers :
            (\A c \in AdmittedCalls(id) : calls[c].now > clock - limiter.window_seconds)
            => Cardinality(redis.zsets[Key(id)]) = Cardinality(AdmittedCalls(id))

\* two admitted calls that read the same clock value share one entry
C38_Witness ==
    /\ redis.client
    /\ limiter.requests_limit = 2
    /\ calls[1].pc = "done" /\ calls[1].id = "u1" /\ calls[1].allowed
    /\ calls[2].pc = "done" /\ calls[2].id = "u1" /\ calls[2].allowed
    /\ calls[1].now = calls[2].now
    /\ calls[3].pc = "idle"
    /\ redis.zsets[Key("u1")] = {calls[1].now}

C39_OnlyOwnerReads ==
    cache.get_job # NoGetJob =>
        LET j == cache.get_job.job_id
            owner == jobs[j] # NoRow /\ jobs[j].user_id = cache.get_job.user IN
        /\ ~owner => cache.get_job.ret = NotFound
        /\ cache.get_job.ret # NotFound =>
                /\ owner
                /\ cache.get_job.ret[2].user_id = cache.get_job.user
                /\ cache.get_job.ret[2].job_id = JobIdString(j)

\* another user asks while the owner's snapshot is in the cache
C39_Witness ==
    \E j \in JobIds :
        /\ jobs[j] # NoRow /\ jobs[j].user_id = "u1"
        /\ cache.entries[JobKey(JobIdString(j))].value = dumps(ResponseData(j))
        /\ cache.get_job.job_id = j /\ cache.get_job.user = "u2"
        /\ cache.get_job.ret = NotFound

\* C40: get_job never returns PENDING or PROCESSING for a job whose row
\* has been COMPLETED or FAILED for longer than the active-job TTL, however
\* its reads interleave with the commits of process_job.
C40_TransitionNotMasked ==
    probe.pc = "idle" /\ probe.ret \notin {None, NotFound} =>
        ~ /\ probe.ret[2].status \in {"pending", "processing"}
          /\ probe.since # NoTtl
          /\ probe.returned_at - probe.since > ActiveJobTtl

\* a read served from the cache 12 seconds after the job was completed
C40_Witness ==
    /\ probe.pc = "idle"
    /\ jobs[probe.job_id].status = "COMPLETED"
    /\ probe.since = 0 /\ probe.returned_at = 12
    /\ probe.ret = <<"dict", [job_id |-> JobIdString(probe.job_id), user_id |-> "u1",
                              status |-> "processing", result_url |-> NULL,
                              error_message |-> NULL]>>

=============================================================================
